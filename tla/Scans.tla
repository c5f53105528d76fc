-------------------------------- MODULE Scans --------------------------------
(***************************************************************************)
(* The collectors that read many files per process do so from goroutines,  *)
(* at most as many at a time as a semaphore has places                     *)
(* (internal/procfs/fd.go, socket.go).  Collect starts one goroutine per   *)
(* process until the context is done, then waits for as many messages as   *)
(* it started.                                                             *)
(***************************************************************************)
EXTENDS Windows

CONSTANTS
  MaxScans,   \* maxFDScans
  Fds,        \* descriptors a process may hold
  FdKind,     \* what the link of a descriptor names
  FdInode     \* the inode of a socket's descriptor, 0 for the others

VARIABLES
  scan,      \* the goroutine of each process: waiting, scanning, ended, received
  launched,  \* processes a goroutine was started for
  table,     \* SocketCollector's table of sockets by inode
  fds,       \* kernel: the descriptors every start has open
  net        \* kernel: protocol and state of every socket there is

scans == <<scan, launched, table>>
sockets == <<fds, net>>

NoTable == [read |-> FALSE, of |-> Empty]

ScansInit ==
  /\ scan = Empty /\ launched = {} /\ table = NoTable
  /\ fds = [s \in Starts |-> {}] /\ net = Empty

(***************************************************************************)
(* The kernel's descriptors and sockets.                                   *)
(***************************************************************************)

States == {"listen", "estab"}

FdOpens(s, f) ==
  /\ \A t \in Starts : f \notin fds[t]
  /\ fds' = [fds EXCEPT ![s] = @ \cup {f}]
  /\ IF FdKind[f] = "socket"
     THEN \E st \in States : net' = (FdInode[f] :> st) @@ net
     ELSE UNCHANGED net

FdCloses(s, f) ==
  /\ f \in fds[s]
  /\ fds' = [fds EXCEPT ![s] = @ \ {f}]
  /\ net' = [i \in DOMAIN net \ {FdInode[f]} |-> net[i]]

(***************************************************************************)
(* One process.                                                            *)
(***************************************************************************)

AnonKinds == {"eventfd", "epoll", "anon"}
FdMetrics == {"fd-total", "fd-files", "fd-sockets", "fd-pipes", "fd-anon", "fd-eventfd", "fd-epoll"}

Classes(m) ==
  CASE m = "fd-total"   -> {"file", "socket", "pipe"} \cup AnonKinds
    [] m = "fd-files"   -> {"file"}
    [] m = "fd-sockets" -> {"socket"}
    [] m = "fd-pipes"   -> {"pipe"}
    [] m = "fd-anon"    -> AnonKinds
    [] m = "fd-eventfd" -> {"eventfd"}
    [] m = "fd-epoll"   -> {"epoll"}

FdCollectOne(p, seen) ==
  LET h == Holder(p) IN
  CASE h = Free     -> All(FdMetrics, Unavailable("read_error", "fd"))
    [] h \in denied -> All(FdMetrics, Unavailable("permission_denied", "fd"))
    [] OTHER        -> [m \in FdMetrics |-> Value(Cardinality({f \in seen : FdKind[f] \in Classes(m)}), 0, "fd")]

SockMetrics == {"sock-tcp", "sock-listen", "sock-estab"}

Joined(m, st) == m = "sock-tcp" \/ m = "sock-" \o st

\* A descriptor counts when its inode is in the table.
SocketCollectOne(p, seen) ==
  LET h == Holder(p) IN
  CASE h = Free     -> All(SockMetrics, Unavailable("read_error", "socket"))
    [] h \in denied -> All(SockMetrics, Unavailable("permission_denied", "socket"))
    [] OTHER        -> [m \in SockMetrics |-> Value(Cardinality(
         {f \in seen : FdInode[f] \in DOMAIN table.of /\ Joined(m, table.of[FdInode[f]])}), 0, "socket")]

(***************************************************************************)
(* Collect.                                                                *)
(***************************************************************************)

Scanning == {"fd", "socket"}
In(c, st) == {p \in DOMAIN c : c[p] = st}
Held == In(scan, "scanning")

\* The socket table is read once, before the processes.
ReadNetTables ==
  /\ Running("socket") /\ ~table.read
  /\ table' = [read |-> TRUE, of |-> net]
  /\ UNCHANGED <<snap, collectors, scan, launched>>

Ready == (\E c \in Scanning : Running(c)) /\ (Running("socket") => table.read)
More == Procs \ launched # {} /\ ~ctxDone

Launch ==
  /\ Ready
  /\ More
  /\ LET p == CHOOSE p \in Procs \ launched : \A q \in Procs \ launched : p <= q IN
     /\ launched' = launched \cup {p}
     /\ scan' = Over([q \in {p} |-> "waiting"], scan)
  /\ UNCHANGED <<snap, collectors, table>>

Acquire(p) ==
  /\ scan[p] = "waiting" /\ Cardinality(Held) < MaxScans
  /\ scan' = [scan EXCEPT ![p] = "scanning"]
  /\ UNCHANGED <<snap, collectors, launched, table>>

\* collectOne, and the deferred return of the place.  A descriptor closed
\* between ReadDir and Readlink is left out.
CollectOne(p) ==
  /\ scan[p] = "scanning"
  /\ LET seen == IF Holder(p) = Free THEN {} ELSE fds[Holder(p)] IN
     Collected([q \in {p} |-> IF Running("fd") THEN FdCollectOne(p, seen) ELSE SocketCollectOne(p, seen)])
  /\ scan' = [scan EXCEPT ![p] = "ended"]
  /\ UNCHANGED <<collectors, launched, table>>

\* The goroutine hands its message to Collect, which has started the others.
Receive(p) ==
  /\ ~More
  /\ scan[p] = "ended"
  /\ scan' = [scan EXCEPT ![p] = "received"]
  /\ UNCHANGED <<snap, collectors, launched, table>>

\* Mutant: it awaits a message for every process.
AwaitedAll == Procs

\* The goroutines Collect awaits a message of.
Awaited == launched

CollectReturns ==
  /\ Ready
  /\ ~More
  /\ \A p \in Awaited : p \in DOMAIN scan /\ scan[p] = "received"
  /\ scan' = Empty /\ launched' = {} /\ table' = NoTable
  /\ Finished
  /\ UNCHANGED <<snap, bpf, perf>>

ScanStep ==
  \/ ReadNetTables \/ Launch \/ CollectReturns
  \/ \E p \in DOMAIN scan : Acquire(p) \/ CollectOne(p) \/ Receive(p)
=============================================================================
