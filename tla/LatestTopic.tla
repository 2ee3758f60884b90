---------------------------- MODULE LatestTopic ----------------------------
(***************************************************************************)
(* What a topic promises to those who use it, without the segment, the     *)
(* mutex and the waiting: messages are numbered as they are published,     *)
(* only the newest can be taken, each subscriber takes it at most once,    *)
(* and none from before it joined.  TopicChannel implements this           *)
(* specification as long as no publisher is killed; Action is built on it. *)
(***************************************************************************)
EXTENDS Integers

CONSTANTS Readers,       \* the Subscriber objects
          Contents,      \* what can be published
          NoContent,     \* the message of a topic nobody has published on
          Numbers,       \* numbers are counted modulo this
          Away           \* the cursor of a reader that has not joined, no number

VARIABLES latest,        \* the newest message
          cursor         \* cursor[r] : the number of the last one r took

vars == <<latest, cursor>>

Number == 0 .. Numbers - 1
Messages == [seq : Number, body : Contents \cup {NoContent}]
Following(n) == (n + 1) % Numbers

Init ==
  /\ latest = [seq |-> 0, body |-> NoContent]
  /\ cursor = [r \in Readers |-> Away]

Publish(d) ==
  /\ latest' = [seq |-> Following(latest.seq), body |-> d]
  /\ UNCHANGED cursor

\* What was published before is not for this reader.
Join(r) ==
  /\ cursor[r] = Away
  /\ cursor' = [cursor EXCEPT ![r] = latest.seq]
  /\ UNCHANGED latest

\* Numbers that have wrapped are not newer until they have passed the cursor.
Take(r) ==
  /\ cursor[r] # Away /\ cursor[r] < latest.seq
  /\ cursor' = [cursor EXCEPT ![r] = latest.seq]
  /\ UNCHANGED latest

Leave(r) ==
  /\ cursor[r] # Away
  /\ cursor' = [cursor EXCEPT ![r] = Away]
  /\ UNCHANGED latest

Next ==
  \/ \E d \in Contents : Publish(d)
  \/ \E r \in Readers : Join(r) \/ Take(r) \/ Leave(r)

Spec == Init /\ [][Next]_vars
=============================================================================
