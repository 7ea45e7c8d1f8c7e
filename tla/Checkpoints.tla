------------------------------ MODULE Checkpoints ------------------------------
(***************************************************************************)
(* The LangGraph checkpointer chosen by checkpointing.py, as far as the     *)
(* program relies on it.  The library is not part of the repository: what   *)
(* is here is how its threads behave for the calls nodes.py and api/main.py *)
(* make.                                                                    *)
(*                                                                          *)
(* After each node the loop makes a checkpoint of the thread and hands it   *)
(* to a background writer (invoke is called without a durability, which is  *)
(* "async"); it goes on to the next node without waiting and waits for the  *)
(* writer only before invoke returns or raises.  A thread's state is its    *)
(* newest saved checkpoint.                                                 *)
(***************************************************************************)
EXTENDS ReviewState

CONSTANT Checkpointer     \* LANGGRAPH_CHECKPOINTER: "sqlite" or "memory"

ASSUME CheckpointerAssumption == Checkpointer \in {"sqlite", "memory"}

VARIABLES ckpt,      \* the newest saved checkpoint of each thread
          unsaved,   \* the checkpoints each call has made and not yet saved
          clock      \* checkpoint ids grow with the time of their making
ckptVars == <<ckpt, unsaved, clock>>

\* next: the node to run; paused: an interrupt of that node is pending; answer: the
\* answer a resume of that node recorded with the pending interrupt.
Checkpoint == [id : Nat, next : Places, values : Values, paused : BOOLEAN,
               answer : AnswersOrNone]
NoCheckpoint == [id |-> 0, next |-> "NONE", values |-> NoValues, paused |-> FALSE,
                 answer |-> NoAnswer]

CkptTypeOK ==
  /\ ckpt \in [Threads -> Checkpoint]
  /\ unsaved \in [Calls -> SUBSET Checkpoint]
  /\ clock \in Nat

CkptInit ==
  /\ ckpt = [t \in Threads |-> NoCheckpoint]
  /\ unsaved = [c \in Calls |-> {}]
  /\ clock = 0

\* The loop of call c makes a checkpoint and hands it to the writer.
MakeCheckpoint(c, next, values, paused) ==
  /\ clock' = clock + 1
  /\ unsaved' = [unsaved EXCEPT ![c] = @ \cup
                   {[id |-> clock + 1, next |-> next, values |-> values,
                     paused |-> paused, answer |-> NoAnswer]}]
  /\ UNCHANGED ckpt

\* Seeded fault: the writer saves what it has in any order.
SaveAnyCheckpoint(c, t) ==
  \E k \in unsaved[c] :
    /\ unsaved' = [unsaved EXCEPT ![c] = @ \ {k}]
    /\ ckpt' = IF k.id > ckpt[t].id THEN [ckpt EXCEPT ![t] = k] ELSE ckpt
    /\ UNCHANGED clock

\* The writer saves call c's oldest unsaved checkpoint, on thread t.
SaveCheckpoint(c, t) ==
  \E k \in unsaved[c] :
    /\ \A other \in unsaved[c] : k.id <= other.id
    /\ unsaved' = [unsaved EXCEPT ![c] = @ \ {k}]
    /\ ckpt' = IF k.id > ckpt[t].id THEN [ckpt EXCEPT ![t] = k] ELSE ckpt
    /\ UNCHANGED clock

\* interrupt() returns `answer` to a node of thread t.  Of the library versions that
\* pyproject.toml allows, some write that answer down with the pending interrupt; should
\* the node then fail, the next resume of it gets the old answer in place of its own.
KeepAnswer(t, answer) ==
  \/ UNCHANGED ckptVars
  \/ /\ ckpt[t].paused
     /\ ckpt' = [ckpt EXCEPT ![t].answer = answer]
     /\ UNCHANGED <<unsaved, clock>>

\* The process stops: what the writer has not saved is gone, and an InMemorySaver
\* goes with the process.
LoseUnsaved ==
  /\ unsaved' = [c \in Calls |-> {}]
  /\ ckpt' = IF Checkpointer = "sqlite" THEN ckpt
             ELSE [t \in Threads |-> NoCheckpoint]
  /\ UNCHANGED clock
================================================================================
