---------------------------- MODULE AnswerCache -----------------------------
(***************************************************************************)
(* What the tuned table promises its readers, with the snapshots, the       *)
(* storages and the locks abstracted away.  A slot answers some keys with   *)
(* configurations and belongs to a generation.  Within a generation answers *)
(* are only ever added, one new configuration at a time; only load() and    *)
(* clear() take answers away, and they change the generation.               *)
(***************************************************************************)
EXTENDS Naturals

CONSTANTS Cells, Keys, None

VARIABLES
  generation,   (* The generation each slot is in; 0 if it has none. *)
  answers       (* answers[c][k]: what find() says of k in c.         *)

cacheVars == <<generation, answers>>

Empty == [k \in Keys |-> None]

Init ==
  /\ generation = [c \in Cells |-> 0]
  /\ answers = [c \in Cells |-> Empty]

Answered(c) == {k \in Keys : answers[c][k] # None}

\* insert_resolved() in a bound slot: keys that had no answer get one
\* configuration, which answers no other key; answers already given stay.
Learn(c) ==
  \E k \in Keys \ Answered(c) :
    LET config == answers'[c][k]
        bucket == {b \in Keys : answers'[c][b] = config}
    IN /\ config # None
       /\ bucket \cap Answered(c) = {}
       /\ answers' = [answers EXCEPT ![c] =
                        [b \in Keys |-> IF b \in bucket THEN config ELSE answers[c][b]]]
       /\ UNCHANGED generation

\* load(), or the first insert_resolved() in a slot: a later generation, with
\* whatever answers its table brings.
Bind(c) ==
  /\ generation'[c] > generation[c]
  /\ generation' = [generation EXCEPT ![c] = generation'[c]]
  /\ answers' = [answers EXCEPT ![c] = answers'[c]]

\* clear(): back to nothing.
Forget ==
  /\ generation' = [c \in Cells |-> 0]
  /\ answers' = [c \in Cells |-> Empty]

Next ==
  \/ \E c \in Cells : Learn(c) \/ Bind(c)
  \/ Forget

Spec == Init /\ [][Next]_cacheVars
=============================================================================
