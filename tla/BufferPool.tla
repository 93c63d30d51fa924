----------------------------- MODULE BufferPool -----------------------------
(***************************************************************************)
(* The pool of buffers (MemoryPool.hpp) behind the calls that do not block:*)
(* sendNonBlocking and receiveNonBlocking of IpClient, writeNonBlocking    *)
(* and readNonBlocking of FileSystemAbstraction.  The caller allocates a   *)
(* block, moves its data there and queues an event that uses the block;    *)
(* the thread of the queue runs it.  Neither the pool nor its users lock:  *)
(* the map of allocated blocks is read and written block by block.         *)
(***************************************************************************)
EXTENDS Naturals, Sequences

CONSTANTS
  Users,     \* the classes that use a pool: "IpClient", "FileSystem"
  Callers,   \* threads that call
  Blocks,    \* _numberOfBlocks, APP_MAX_QUEUEABLE_EVENTS
  Capacity,  \* the events that fit in the queue, the one that runs included
  MaxCalls   \* bound: calls of a thread

BufferPoolAssumption ==
  /\ Users \subseteq {"IpClient", "FileSystem"}
  /\ Blocks \in Nat \ {0} /\ Capacity \in Nat \ {0} /\ MaxCalls \in Nat

VARIABLES
  user,     \* the class of this behaviour, constant
  marked,   \* _blockAllocationMap
  pc,       \* where a caller is
  at,       \* the block it looks at or has
  calls,    \* the number of its calls
  queue,    \* the events that are queued: whose call, which block
  holders,  \* observation: the calls that use a block
  full,     \* observation: whether the queue was full when the call began
  noMemory  \* observation: a call got no block though the queue was not full

vars == <<user, marked, pc, at, calls, queue, holders, full, noMemory>>

Indices == 1 .. Blocks

Init ==
  /\ user \in Users
  /\ marked = [i \in Indices |-> FALSE]
  /\ pc = [c \in Callers |-> "idle"]
  /\ at = [c \in Callers |-> 1]
  /\ calls = [c \in Callers |-> 0]
  /\ queue = <<>>
  /\ holders = [i \in Indices |-> {}]
  /\ full = [c \in Callers |-> FALSE]
  /\ noMemory = FALSE

Goto(c, from, to) == pc[c] = from /\ pc' = [pc EXCEPT ![c] = to]

BeginCall(c) ==
  /\ calls[c] < MaxCalls
  /\ Goto(c, "idle", "look")
  /\ calls' = [calls EXCEPT ![c] = @ + 1]
  /\ at' = [at EXCEPT ![c] = 1]
  /\ full' = [full EXCEPT ![c] = Len(queue) = Capacity]
  /\ UNCHANGED <<user, marked, queue, holders, noMemory>>

\* allocate(): blockIsAvailable(i) of one block after the other.
LookAtBlock(c) ==
  /\ pc[c] = "look" /\ at[c] <= Blocks
  /\ IF marked[at[c]] THEN at' = [at EXCEPT ![c] = @ + 1] /\ UNCHANGED pc
     ELSE Goto(c, "look", "mark") /\ UNCHANGED at
  /\ UNCHANGED <<user, marked, calls, queue, holders, full, noMemory>>

\* NoMemory.
FindNoBlock(c) ==
  /\ at[c] > Blocks
  /\ Goto(c, "look", "idle")
  /\ noMemory' = (noMemory \/ ~full[c])
  /\ UNCHANGED <<user, marked, at, calls, queue, holders, full>>

\* The block is constructed and marked.
MarkBlock(c) ==
  /\ Goto(c, "mark", "add")
  /\ marked' = [marked EXCEPT ![at[c]] = TRUE]
  /\ holders' = [holders EXCEPT ![at[c]] = @ \cup {<<c, calls[c]>>}]
  /\ UNCHANGED <<user, at, calls, queue, full, noMemory>>

\* deallocate() by the call h.
GiveBack(i, h) ==
  /\ marked' = [marked EXCEPT ![i] = FALSE]
  /\ holders' = [holders EXCEPT ![i] = @ \ {h}]

\* addEvent() has room.
QueueEvent(c) ==
  /\ Len(queue) < Capacity
  /\ Goto(c, "add", "idle")
  /\ queue' = Append(queue, [call |-> <<c, calls[c]>>, block |-> at[c], done |-> FALSE])
  /\ UNCHANGED <<user, marked, at, calls, holders, full, noMemory>>

\* Mutant of RefuseEvent: the block is not given back.
RefuseAndKeep(c) ==
  /\ Len(queue) = Capacity
  /\ Goto(c, "add", "idle")
  /\ holders' = [holders EXCEPT ![at[c]] = @ \ {<<c, calls[c]>>}]
  /\ UNCHANGED <<user, marked, at, calls, queue, full, noMemory>>

\* addEvent() has no room: the caller gives the block back.
RefuseEvent(c) ==
  /\ Len(queue) = Capacity
  /\ Goto(c, "add", "idle")
  /\ GiveBack(at[c], <<c, calls[c]>>)
  /\ UNCHANGED <<user, at, calls, queue, full, noMemory>>

\* Mutant of RunEvent: the block is given back before the event used it.
RunAfterRelease ==
  /\ queue # <<>> /\ ~queue[1].done
  /\ queue' = [queue EXCEPT ![1].done = TRUE]
  /\ marked' = [marked EXCEPT ![queue[1].block] = FALSE]
  /\ UNCHANGED <<user, pc, at, calls, holders, full, noMemory>>

\* The thread of the queue runs the event: IpClient gives the block back at its
\* end, FileSystem never does.
RunEvent ==
  /\ queue # <<>> /\ ~queue[1].done
  /\ queue' = [queue EXCEPT ![1].done = TRUE]
  /\ IF user = "IpClient" THEN GiveBack(queue[1].block, queue[1].call)
     ELSE /\ holders' = [holders EXCEPT ![queue[1].block] = @ \ {queue[1].call}]
          /\ UNCHANGED marked
  /\ UNCHANGED <<user, pc, at, calls, full, noMemory>>

\* ... and then takes it off the queue.
ReleaseEvent ==
  /\ queue # <<>> /\ queue[1].done
  /\ queue' = Tail(queue)
  /\ UNCHANGED <<user, marked, pc, at, calls, holders, full, noMemory>>

Next ==
  \/ \E c \in Callers : \/ BeginCall(c) \/ LookAtBlock(c) \/ FindNoBlock(c) \/ MarkBlock(c)
                        \/ QueueEvent(c) \/ RefuseEvent(c)
  \/ RunEvent \/ ReleaseEvent

Spec == Init /\ [][Next]_vars

-----------------------------------------------------------------------------
TypeOK ==
  /\ user \in Users
  /\ marked \in [Indices -> BOOLEAN]
  /\ pc \in [Callers -> {"idle", "look", "mark", "add"}]
  /\ at \in [Callers -> 1 .. Blocks + 1]
  /\ calls \in [Callers -> 0 .. MaxCalls]
  /\ queue \in Seq([call : Callers \X Nat, block : Indices, done : BOOLEAN])
  /\ holders \in [Indices -> SUBSET (Callers \X Nat)]
  /\ full \in [Callers -> BOOLEAN] /\ noMemory \in BOOLEAN

\* A block is used by one call at a time and is marked while it is used: with
\* one thread that calls, beside the thread of the queue that gives back.  (Two
\* callers can find the same block.)
BlocksAreExclusive ==
  \A i \in Indices : /\ \A g, h \in holders[i] : g = h
                     /\ holders[i] # {} => marked[i]

\* A pool with a block for every event of the queue runs out only when the queue
\* is full, as long as every path gives its block back (FileSystem does not).
PoolCoversQueue == user = "IpClient" => ~noMemory

\* The same promise of every user.
EveryPoolCoversQueue == ~noMemory
=============================================================================
