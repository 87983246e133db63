---------------------------- MODULE TrafficClient ----------------------------
(* The traffic generator (empirical-traffic-gen/src): the client's main      *)
(* thread, one listener thread per connection and the server's process at    *)
(* the other end of each connection, from the moment all are connected.      *)
(*                                                                           *)
(* A request asks for a file on each of some destinations. In the closed     *)
(* loop (load 0) the listener that completes a request sends the next one,   *)
(* while it holds inc_lock; in the open loop the main thread sends all.      *)
(* The first request is the main thread's in both, and it takes no lock.     *)
EXTENDS Integers, Sequences, FiniteSets

CONSTANTS
  Dests,       (* the connections                                            *)
  Main,        (* the main thread                                            *)
  NoOne,       (* no thread                                                  *)
  Iter,        (* num_reqs: the number of requests                           *)
  FanoutSizes, (* how many files a request may ask for                       *)
  Sizes,       (* sizes of a file, in units of what one read returns         *)
  Window,      (* what the sockets hold in one direction, in messages        *)
  Mortal       (* the servers that may die                                   *)

Actors == Dests \union {Main}
Iterations == 1..Iter

(* The destinations of a request: drawn without replacement.                 *)
Draws == {s \in UNION {[1..n -> Dests] : n \in FanoutSizes} :
            \A k, l \in DOMAIN s : s[k] = s[l] => k = l}

ASSUME TrafficAssumption ==
  /\ IsFiniteSet(Dests) /\ Main \notin Dests /\ NoOne \notin Actors
  /\ Iter \in Nat \ {0} /\ Window \in Nat \ {0}
  /\ FanoutSizes \subseteq 1..Cardinality(Dests) /\ FanoutSizes # {}
  /\ Sizes \subseteq Nat /\ Sizes # {}
  /\ Mortal \subseteq Dests

VARIABLES
  closed,                (* period < 0: the closed loop                      *)
  iteration_destination, (* the destinations of each request                 *)
  iteration_file_size,   (* the size of each of its files                    *)
  status,                (* "running", "exited" (in error) or "done"         *)
  pc,                    (* where each thread of the client is               *)
  it, next,              (* run_iteration: the request, its next file        *)
  f_index, total,        (* a listener's file, and what is left to read      *)
  file_count,            (* the files a listener has received                *)
  loaded,                (* req_file_count as a listener read it             *)
  inc_lock,              (* the owner of the mutex, or NoOne                 *)
  req_file_count,        (* files missing of the request under way           *)
  req_index,             (* the request under way                            *)
  start_time, stop_time, (* the files whose times are written                *)
  requests, replies,     (* what the sockets hold in each direction          *)
  server,                (* where the server's process of a connection is    *)
  job, unsent            (* its file, and what is left to write of it        *)

setup == <<closed, iteration_destination, iteration_file_size>>
sender == <<it, next>>
reader == <<f_index, total>>
shared == <<inc_lock, req_file_count, req_index, loaded>>
times == <<start_time, stop_time>>
serving == <<server, job, unsent>>
vars == <<setup, status, pc, sender, reader, file_count, shared, times,
          requests, replies, serving>>

(* A file is known by its request and its number there: index is            *)
(* it * num_dest + j, and j stays below num_dest.                            *)
Fanout(i) == Len(iteration_destination[i])
FilesOf(i) == {<<i, k>> : k \in 1..Fanout(i)}
Files == UNION {FilesOf(i) : i \in Iterations}
Destination(f) == iteration_destination[f[1]][f[2]]
Size(f) == iteration_file_size[f[1]]
dest_file_count(d) == Cardinality({f \in Files : Destination(f) = d})

NoFile == <<0, 0>>

-----------------------------------------------------------------------------

(* mutant: a listener stops one file early.                                  *)
AfterFileEarly(d, count) == IF count + 1 < dest_file_count(d) THEN "metadata" ELSE "closed"

(* A listener that has all its files closes its connection at once.          *)
AfterFile(d, count) == IF count < dest_file_count(d) THEN "metadata" ELSE "closed"

Init ==
  /\ closed \in BOOLEAN
  /\ iteration_destination \in [Iterations -> Draws]
  /\ iteration_file_size \in [Iterations -> Sizes]
  /\ status = "running"
  /\ pc = [a \in Actors |-> IF a = Main THEN "begin" ELSE AfterFile(a, 0)]
  /\ it = [a \in Actors |-> 1] /\ next = [a \in Actors |-> 1]
  /\ f_index = [d \in Dests |-> NoFile] /\ total = [d \in Dests |-> 0]
  /\ file_count = [d \in Dests |-> 0]
  /\ loaded = [d \in Dests |-> 0]
  /\ inc_lock = NoOne
  /\ req_file_count = 0 /\ req_index = 1
  /\ start_time = {} /\ stop_time = {}
  /\ requests = [d \in Dests |-> << >>] /\ replies = [d \in Dests |-> << >>]
  /\ server = [d \in Dests |-> "read"]
  /\ job = [d \in Dests |-> NoFile] /\ unsent = [d \in Dests |-> 0]

(* run_iteration, its entry: in the closed loop it sets the count of the     *)
(* files to wait for before it sends the first request.                      *)
RunIteration(a, i) ==
  /\ it' = [it EXCEPT ![a] = i]
  /\ next' = [next EXCEPT ![a] = 1]
  /\ req_file_count' = IF closed THEN Fanout(i) ELSE req_file_count

(* run_iterations: the first request.                                        *)
Begin ==
  /\ status = "running" /\ pc[Main] = "begin"
  /\ RunIteration(Main, 1)
  /\ req_index' = 1
  /\ pc' = [pc EXCEPT ![Main] = "stamp"]
  /\ UNCHANGED <<setup, status, reader, file_count, inc_lock, loaded, times,
                 requests, replies, serving>>

(* run_iteration, one round of its loop: the start time, then the write,     *)
(* which blocks while the socket is full.                                    *)
NextFile(a) == <<it[a], next[a]>>

Stamp(a) ==
  /\ status = "running" /\ pc[a] = "stamp" /\ next[a] <= Fanout(it[a])
  /\ start_time' = start_time \union {NextFile(a)}
  /\ pc' = [pc EXCEPT ![a] = "write"]
  /\ UNCHANGED <<setup, status, sender, reader, file_count, shared, stop_time,
                 requests, replies, serving>>

(* A socket whose peer is gone may take a message to nowhere, or fail; one   *)
(* the client has closed itself fails.                                       *)
Gone(d) == server[d] \in {"dead", "closed"}

Write(a) ==
  LET f == NextFile(a)
      d == Destination(f)
  IN  /\ status = "running" /\ pc[a] = "write"
      /\ \/ /\ pc[d] # "closed" /\ ~Gone(d) /\ Len(requests[d]) < Window
            /\ requests' = [requests EXCEPT ![d] = Append(@, f)]
            /\ UNCHANGED status
         \/ /\ pc[d] # "closed" /\ Gone(d)
            /\ UNCHANGED <<requests, status>>
         \/ /\ pc[d] = "closed" \/ Gone(d)
            /\ status' = "exited"
            /\ UNCHANGED requests
      /\ next' = [next EXCEPT ![a] = @ + 1]
      /\ pc' = [pc EXCEPT ![a] = "stamp"]
      /\ UNCHANGED <<setup, it, reader, file_count, shared, times, replies, serving>>

(* The end of run_iteration. The main thread goes on to the next request in  *)
(* the open loop and to pthread_join in the closed one; a listener releases  *)
(* the lock and goes on listening.                                           *)
MainReturns ==
  /\ status = "running" /\ pc[Main] = "stamp" /\ next[Main] > Fanout(it[Main])
  /\ IF ~closed /\ it[Main] < Iter
     THEN RunIteration(Main, it[Main] + 1) /\ UNCHANGED pc
     ELSE pc' = [pc EXCEPT ![Main] = "join"] /\ UNCHANGED <<sender, req_file_count>>
  /\ UNCHANGED <<setup, status, reader, file_count, inc_lock, req_index, loaded,
                 times, requests, replies, serving>>

(* mutant: the listener that sent a request keeps the lock.                  *)
ListenerReturnsLocked(d) ==
  /\ status = "running" /\ pc[d] = "stamp" /\ next[d] > Fanout(it[d])
  /\ pc' = [pc EXCEPT ![d] = AfterFile(d, file_count[d])]
  /\ UNCHANGED <<setup, status, sender, reader, file_count, shared, times, requests,
                 replies, serving>>

ListenerReturns(d) ==
  /\ status = "running" /\ pc[d] = "stamp" /\ next[d] > Fanout(it[d])
  /\ inc_lock' = NoOne
  /\ pc' = [pc EXCEPT ![d] = AfterFile(d, file_count[d])]
  /\ UNCHANGED <<setup, status, sender, reader, file_count, req_file_count,
                 req_index, loaded, times, requests, replies, serving>>

-----------------------------------------------------------------------------
(* listen_connection.                                                        *)

ReadMetadata(d) ==
  /\ status = "running" /\ pc[d] = "metadata" /\ replies[d] # << >>
  /\ LET f == Head(replies[d]).file
     IN  /\ f_index' = [f_index EXCEPT ![d] = f]
         /\ total' = [total EXCEPT ![d] = Size(f)]
  /\ replies' = [replies EXCEPT ![d] = Tail(@)]
  /\ pc' = [pc EXCEPT ![d] = "flow"]
  /\ UNCHANGED <<setup, status, sender, file_count, shared, times, requests, serving>>

(* At the end of the stream read returns 0: nothing in the loop takes note,  *)
(* and it goes round for ever.                                               *)
Spins(d) == status = "running" /\ pc[d] = "metadata" /\ replies[d] = << >> /\ Gone(d)

Spin(d) == Spins(d) /\ UNCHANGED vars

(* A connection that was reset returns an error instead.                     *)
ReadFails(d) ==
  /\ Spins(d)
  /\ status' = "exited"
  /\ UNCHANGED <<setup, pc, sender, reader, file_count, shared, times, requests,
                 replies, serving>>

(* mutant: it reads on when nothing is left.                                 *)
ReadFlowAny(d) ==
  /\ status = "running" /\ pc[d] = "flow" /\ replies[d] # << >>
  /\ total' = [total EXCEPT ![d] = @ - 1]
  /\ replies' = [replies EXCEPT ![d] = Tail(@)]
  /\ UNCHANGED <<setup, status, pc, sender, f_index, file_count, shared, times,
                 requests, serving>>

(* read never asks for more than is left of the file.                        *)
ReadFlow(d) ==
  /\ status = "running" /\ pc[d] = "flow" /\ total[d] > 0 /\ replies[d] # << >>
  /\ total' = [total EXCEPT ![d] = @ - 1]
  /\ replies' = [replies EXCEPT ![d] = Tail(@)]
  /\ UNCHANGED <<setup, status, pc, sender, f_index, file_count, shared, times,
                 requests, serving>>

(* "failed to read"                                                          *)
FlowBreaksOff(d) ==
  /\ status = "running" /\ pc[d] = "flow" /\ total[d] > 0 /\ replies[d] = << >> /\ Gone(d)
  /\ status' = "exited"
  /\ UNCHANGED <<setup, pc, sender, reader, file_count, shared, times, requests,
                 replies, serving>>

Received(d) ==
  /\ status = "running" /\ pc[d] = "flow" /\ total[d] = 0
  /\ stop_time' = stop_time \union {f_index[d]}
  /\ file_count' = [file_count EXCEPT ![d] = @ + 1]
  /\ pc' = [pc EXCEPT ![d] = IF closed THEN "lock" ELSE AfterFile(d, file_count[d] + 1)]
  /\ UNCHANGED <<setup, status, sender, reader, shared, start_time, requests,
                 replies, serving>>

(* mutant: the counter is decremented without the lock.                      *)
LockNothing(d) ==
  /\ status = "running" /\ pc[d] = "lock"
  /\ pc' = [pc EXCEPT ![d] = "load"]
  /\ UNCHANGED <<setup, status, sender, reader, file_count, shared, times, requests,
                 replies, serving>>

Lock(d) ==
  /\ status = "running" /\ pc[d] = "lock" /\ inc_lock = NoOne
  /\ inc_lock' = d
  /\ pc' = [pc EXCEPT ![d] = "load"]
  /\ UNCHANGED <<setup, status, sender, reader, file_count, req_file_count,
                 req_index, loaded, times, requests, replies, serving>>

(* req_file_count-- reads the counter and writes it back.                    *)
Load(d) ==
  /\ status = "running" /\ pc[d] = "load"
  /\ loaded' = [loaded EXCEPT ![d] = req_file_count]
  /\ pc' = [pc EXCEPT ![d] = "count"]
  /\ UNCHANGED <<setup, status, sender, reader, file_count, inc_lock,
                 req_file_count, req_index, times, requests, replies, serving>>

(* mutant: the next request starts when one file is missing.                 *)
CountAhead(d) ==
  LET left == loaded[d] - 1
  IN  /\ status = "running" /\ pc[d] = "count"
      /\ req_index' = IF left <= 1 THEN req_index + 1 ELSE req_index
      /\ IF left <= 1 /\ req_index < Iter
         THEN /\ RunIteration(d, req_index + 1)
              /\ pc' = [pc EXCEPT ![d] = "stamp"]
              /\ UNCHANGED inc_lock
         ELSE /\ req_file_count' = left
              /\ pc' = [pc EXCEPT ![d] = AfterFile(d, file_count[d])]
              /\ inc_lock' = NoOne
              /\ UNCHANGED sender
      /\ UNCHANGED <<setup, status, reader, file_count, loaded, times, requests,
                     replies, serving>>

(* The last file of a request starts the next one, if there is one.          *)
Count(d) ==
  LET left == loaded[d] - 1
  IN  /\ status = "running" /\ pc[d] = "count"
      /\ req_index' = IF left = 0 THEN req_index + 1 ELSE req_index
      /\ IF left = 0 /\ req_index < Iter
         THEN /\ RunIteration(d, req_index + 1)
              /\ pc' = [pc EXCEPT ![d] = "stamp"]
              /\ UNCHANGED inc_lock
         ELSE /\ req_file_count' = left
              /\ pc' = [pc EXCEPT ![d] = AfterFile(d, file_count[d])]
              /\ inc_lock' = NoOne
              /\ UNCHANGED sender
      /\ UNCHANGED <<setup, status, reader, file_count, loaded, times, requests,
                     replies, serving>>

(* main, after run_iterations: pthread_join of every listener, process_stats. *)
Join ==
  /\ status = "running" /\ pc[Main] = "join"
  /\ \A d \in Dests : pc[d] = "closed"
  /\ status' = "done"
  /\ UNCHANGED <<setup, pc, sender, reader, file_count, shared, times, requests,
                 replies, serving>>

-----------------------------------------------------------------------------
(* handle_connection of the server. A read of a connection the client closed *)
(* returns less than it asked for, a write to it fails: both end the process. *)

Hangup(d) == pc[d] = "closed" \/ status # "running"

Serve(d) ==
  /\ server[d] = "read" /\ requests[d] # << >>
  /\ job' = [job EXCEPT ![d] = Head(requests[d])]
  /\ requests' = [requests EXCEPT ![d] = Tail(@)]
  /\ server' = [server EXCEPT ![d] = "echo"]
  /\ UNCHANGED <<setup, status, pc, sender, reader, file_count, shared, times,
                 replies, unsent>>

Echo(d) ==
  /\ server[d] = "echo" /\ ~Hangup(d) /\ Len(replies[d]) < Window
  /\ replies' = [replies EXCEPT ![d] = Append(@, [file |-> job[d], part |-> "metadata"])]
  /\ unsent' = [unsent EXCEPT ![d] = Size(job[d])]
  /\ server' = [server EXCEPT ![d] = "flow"]
  /\ UNCHANGED <<setup, status, pc, sender, reader, file_count, shared, times,
                 requests, job>>

SendFlow(d) ==
  /\ server[d] = "flow" /\ unsent[d] > 0 /\ ~Hangup(d) /\ Len(replies[d]) < Window
  /\ replies' = [replies EXCEPT ![d] = Append(@, [file |-> job[d], part |-> "flow"])]
  /\ unsent' = [unsent EXCEPT ![d] = @ - 1]
  /\ UNCHANGED <<setup, status, pc, sender, reader, file_count, shared, times,
                 requests, server, job>>

(* mutant: write_exact stops before the last write.                          *)
ServedShort(d) ==
  /\ server[d] = "flow" /\ unsent[d] <= 1
  /\ server' = [server EXCEPT ![d] = "read"]
  /\ UNCHANGED <<setup, status, pc, sender, reader, file_count, shared, times,
                 requests, replies, job, unsent>>

Served(d) ==
  /\ server[d] = "flow" /\ unsent[d] = 0
  /\ server' = [server EXCEPT ![d] = "read"]
  /\ UNCHANGED <<setup, status, pc, sender, reader, file_count, shared, times,
                 requests, replies, job, unsent>>

CloseConnection(d) ==
  /\ \/ server[d] = "read" /\ requests[d] = << >>
     \/ server[d] = "echo"
     \/ server[d] = "flow" /\ unsent[d] > 0
  /\ Hangup(d)
  /\ server' = [server EXCEPT ![d] = "closed"]
  /\ UNCHANGED <<setup, status, pc, sender, reader, file_count, shared, times,
                 requests, replies, job, unsent>>

(* The process at the other end is killed; what it wrote still arrives.      *)
Die(d) ==
  /\ d \in Mortal /\ ~Gone(d)
  /\ server' = [server EXCEPT ![d] = "dead"]
  /\ UNCHANGED <<setup, status, pc, sender, reader, file_count, shared, times,
                 requests, replies, job, unsent>>

-----------------------------------------------------------------------------

MainStep == Begin \/ Stamp(Main) \/ Write(Main) \/ MainReturns \/ Join

Listen(d) ==
  \/ Stamp(d) \/ Write(d) \/ ListenerReturns(d)
  \/ ReadMetadata(d) \/ ReadFlow(d) \/ FlowBreaksOff(d) \/ Received(d)
  \/ Lock(d) \/ Load(d) \/ Count(d)

HandleConnection(d) ==
  Serve(d) \/ Echo(d) \/ SendFlow(d) \/ Served(d) \/ CloseConnection(d)

Next ==
  \/ MainStep
  \/ \E d \in Dests : Listen(d) \/ Spin(d) \/ ReadFails(d) \/ HandleConnection(d) \/ Die(d)

Spec == Init /\ [][Next]_vars

(* Every thread and every process gets to run. Whether a dead server's       *)
(* connection is reset is left open.                                         *)
FairSpec ==
  /\ Spec
  /\ WF_vars(MainStep)
  /\ \A d \in Dests : WF_vars(Listen(d)) /\ WF_vars(HandleConnection(d))

-----------------------------------------------------------------------------
(* Properties.                                                               *)

Parts == [file : Files, part : {"metadata", "flow"}]

(* Every variable has its type.                                              *)
TypeOK ==
  /\ closed \in BOOLEAN
  /\ iteration_destination \in [Iterations -> Draws]
  /\ iteration_file_size \in [Iterations -> Sizes]
  /\ status \in {"running", "exited", "done"}
  /\ pc \in [Actors -> {"begin", "metadata", "flow", "lock", "load", "count",
                        "stamp", "write", "join", "closed"}]
  /\ it \in [Actors -> Iterations] /\ next \in [Actors -> Nat \ {0}]
  /\ f_index \in [Dests -> Files \union {NoFile}] /\ total \in [Dests -> Nat]
  /\ file_count \in [Dests -> Nat] /\ loaded \in [Dests -> Nat]
  /\ inc_lock \in Dests \union {NoOne}
  /\ req_file_count \in Nat /\ req_index \in 1..(Iter + 1)
  /\ start_time \subseteq Files /\ stop_time \subseteq Files
  /\ requests \in [Dests -> Seq(Files)] /\ replies \in [Dests -> Seq(Parts)]
  /\ server \in [Dests -> {"read", "echo", "flow", "closed", "dead"}]
  /\ job \in [Dests -> Files \union {NoFile}] /\ unsent \in [Dests -> Nat]

(* What process_stats relies on, and asserts of the difference: no file has  *)
(* a stop time without a start time, and when it runs all files have both.   *)
StatsComplete ==
  /\ stop_time \subseteq start_time
  /\ status = "done" => stop_time = Files

(* In the closed loop, whenever no listener is inside the lock, the counter  *)
(* is the number of files of the request under way that nobody has counted,  *)
(* although the main thread sets it and sends the first request without the  *)
(* lock; and never do two threads have files left to send.                   *)
Uncounted == (FilesOf(req_index) \ stop_time)
               \union {f_index[d] : d \in {e \in Dests : pc[e] = "lock"}}
CountsOutstanding ==
  closed /\ pc[Main] # "begin" /\ status = "running" =>
    /\ inc_lock = NoOne =>
         req_file_count = IF req_index > Iter THEN 0 ELSE Cardinality(Uncounted)
    /\ \A a, b \in Actors :
         {pc[a], pc[b]} \subseteq {"stamp", "write"}
           /\ next[a] <= Fanout(it[a]) /\ next[b] <= Fanout(it[b]) => a = b

(* However the flows of several requests follow each other on a connection,  *)
(* a listener takes for metadata what is metadata, and for a file's flow     *)
(* what is that file's.                                                      *)
FlowsInSync ==
  \A d \in Dests : replies[d] # << >> =>
    /\ pc[d] = "metadata" => Head(replies[d]).part = "metadata"
    /\ pc[d] = "flow" /\ total[d] > 0 => Head(replies[d]) = [file |-> f_index[d], part |-> "flow"]

(* The client implements the loop its README describes: no file is asked for *)
(* twice or received twice, requests are sent in order and, in the closed    *)
(* loop, one is answered in full before the next is sent.                    *)
Loop == INSTANCE RequestLoop WITH
  files <- Files, sent <- start_time, received <- stop_time
ImplementsLoop == Loop!Spec

(* The run ends: with statistics, or, but only when a server died, with an   *)
(* error or with a listener that reads the end of its stream for ever.       *)
Ends ==
  <>[](\/ status = "done"
       \/ /\ \E d \in Dests : server[d] = "dead"
          /\ status = "exited" \/ \E d \in Dests : Spins(d))
=============================================================================
