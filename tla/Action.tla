------------------------------- MODULE Action -------------------------------
(***************************************************************************)
(* One action: an ActionServer and the ActionClients that send it goals    *)
(* (action_server.cpp, action_client.cpp and their headers).  Goals,       *)
(* feedback and results travel on three topics, each a LatestTopic: a      *)
(* reader that is busy finds only the newest message when it comes back.   *)
(*                                                                         *)
(* Goals are told apart by the number the client gave them, which starts   *)
(* at 0 in every ActionClient.  A goal is modelled by who sent it and this *)
(* number; only the number is in the header that the others go by.         *)
(*                                                                         *)
(* Left out: pending_goals_, active_goals_ and preempted_goals_.  Nothing  *)
(* reads the first; the other two are read by cancelCallback, which nobody *)
(* runs because cancel_srv_ is never started, and by isPreempted, which is *)
(* therefore always false.                                                 *)
(***************************************************************************)
EXTENDS Integers, FiniteSets, Functions

CONSTANTS Clients,      \* the ActionClient objects, each constructed once
          MaxGoals,     \* bound: the goals a client sends
          MaxSends,     \* bound: the goals sent in all
          MaxStarts,    \* bound: the servers that are started one after another
          MsgMod,       \* messages are numbered modulo this (2^32)
          Nothing

Server == "server"
GoalIds == 0 .. MaxGoals - 1
Goals == [from : Clients, id : GoalIds]

ASSUME ActionAssumption ==
  /\ MaxGoals \in Nat /\ MaxSends \in Nat /\ MaxStarts \in Nat
  /\ MsgMod \in Nat \ {0, 1}
  /\ Nothing \notin Goals

VARIABLES
  goal, goalCursor,          \* topic <action>/goal
  feedback, feedbackCursor,  \* topic <action>/feedback
  result, resultCursor,      \* topic <action>/result
  pc,                        \* where the server's process_thread_ is
  running,                   \* ActionServer::running_
  inbox,                     \* the goal in processLoop's buffer
  goal_queue,                \* ActionServer::goal_queue_
  job,                       \* the goal whose execute_cb_ runs
  life,                      \* life[c] : the ActionClient c
  next_goal_id,              \* ActionClient::next_goal_id_
  feedbacks, results,        \* the ActionClient's dictionaries, by number
  executed,                  \* history: how often each goal was executed
  starts                     \* history: the servers started

topics == <<goal, goalCursor, feedback, feedbackCursor, result, resultCursor>>
server == <<pc, running, inbox, goal_queue, job, executed, starts>>
client == <<life, next_goal_id, feedbacks, results>>
ActionVars == <<topics, server, client>>

GoalTopic == INSTANCE LatestTopic
  WITH Readers <- {Server}, Contents <- Goals, NoContent <- Nothing, Numbers <- MsgMod,
       Away <- -1, latest <- goal, cursor <- goalCursor
FeedbackTopic == INSTANCE LatestTopic
  WITH Readers <- Clients, Contents <- Goals, NoContent <- Nothing, Numbers <- MsgMod,
       Away <- -1, latest <- feedback, cursor <- feedbackCursor
ResultTopic == INSTANCE LatestTopic
  WITH Readers <- Clients, Contents <- Goals, NoContent <- Nothing, Numbers <- MsgMod,
       Away <- -1, latest <- result, cursor <- resultCursor

ActionInit ==
  /\ GoalTopic!Init /\ FeedbackTopic!Init /\ ResultTopic!Init
  /\ pc = "down" /\ running = FALSE
  /\ inbox = Nothing /\ goal_queue = << >> /\ job = Nothing
  /\ executed = [m \in Goals |-> 0] /\ starts = 0
  /\ life = [c \in Clients |-> "absent"]
  /\ next_goal_id = [c \in Clients |-> 0]
  /\ feedbacks = [c \in Clients |-> [g \in GoalIds |-> Nothing]]
  /\ results = [c \in Clients |-> [g \in GoalIds |-> Nothing]]
-----------------------------------------------------------------------------
(* The server. *)

\* Mutant: the server does not align itself with the goals there have been.
BugStart ==
  /\ pc = "down" /\ starts < MaxStarts
  /\ goalCursor' = [goalCursor EXCEPT ![Server] = 0]
  /\ running' = TRUE /\ pc' = "loop" /\ starts' = starts + 1
  /\ UNCHANGED <<goal, feedback, feedbackCursor, result, resultCursor,
                 inbox, goal_queue, job, executed, client>>

\* The constructor, which joins the goal topic, and start.
Start ==
  /\ pc = "down" /\ starts < MaxStarts
  /\ GoalTopic!Join(Server)
  /\ running' = TRUE /\ pc' = "loop" /\ starts' = starts + 1
  /\ UNCHANGED <<feedback, feedbackCursor, result, resultCursor,
                 inbox, goal_queue, job, executed, client>>

\* The head of processLoop's loop.  What comes after it is done even when
\* shutdown is called meanwhile.
Loop ==
  /\ pc = "loop" /\ running
  /\ pc' = "receive"
  /\ UNCHANGED <<topics, running, inbox, goal_queue, job, executed, starts, client>>

\* receiveRaw waits for 100 ms.
ReceiveGoal ==
  /\ pc = "receive"
  /\ GoalTopic!Take(Server)
  /\ inbox' = goal.body /\ pc' = "accept"
  /\ UNCHANGED <<feedback, feedbackCursor, result, resultCursor,
                 running, goal_queue, job, executed, starts, client>>

ReceiveNothing ==
  /\ pc = "receive"
  /\ ~(goalCursor[Server] < goal.seq)
  /\ pc' = "pick"
  /\ UNCHANGED <<topics, running, inbox, goal_queue, job, executed, starts, client>>

\* Mutant: the loop goes on receiving as long as goals come.
BugAccept ==
  /\ pc = "accept"
  /\ goal_queue' = [g \in DOMAIN goal_queue \cup {inbox.id} |->
                      IF g = inbox.id THEN inbox ELSE goal_queue[g]]
  /\ inbox' = Nothing
  /\ pc' = IF goalCursor[Server] < goal.seq THEN "receive" ELSE "pick"
  /\ UNCHANGED <<topics, running, job, executed, starts, client>>

\* goal_queue_[goal.goal_id] = data
Accept ==
  /\ pc = "accept"
  /\ goal_queue' = [g \in DOMAIN goal_queue \cup {inbox.id} |->
                      IF g = inbox.id THEN inbox ELSE goal_queue[g]]
  /\ inbox' = Nothing /\ pc' = "pick"
  /\ UNCHANGED <<topics, running, job, executed, starts, client>>

\* Mutant: a goal numbered 0 is taken for none.
BugPick ==
  /\ pc = "pick"
  /\ IF DOMAIN goal_queue = {}
     THEN pc' = "loop" /\ UNCHANGED <<goal_queue, job, executed>>
     ELSE LET g == CHOOSE i \in DOMAIN goal_queue : \A j \in DOMAIN goal_queue : i <= j
          IN  /\ goal_queue' = Restrict(goal_queue, DOMAIN goal_queue \ {g})
              /\ IF g > 0
                 THEN /\ job' = goal_queue[g] /\ pc' = "execute"
                      /\ executed' = [executed EXCEPT ![goal_queue[g]] = @ + 1]
                 ELSE pc' = "loop" /\ UNCHANGED <<job, executed>>
  /\ UNCHANGED <<topics, running, inbox, starts, client>>

\* The goal with the smallest number is taken out and its callback called.
Pick ==
  /\ pc = "pick"
  /\ IF DOMAIN goal_queue = {}
     THEN pc' = "loop" /\ UNCHANGED <<goal_queue, job, executed>>
     ELSE LET g == CHOOSE i \in DOMAIN goal_queue : \A j \in DOMAIN goal_queue : i <= j
          IN  /\ job' = goal_queue[g] /\ pc' = "execute"
              /\ goal_queue' = Restrict(goal_queue, DOMAIN goal_queue \ {g})
              /\ executed' = [executed EXCEPT ![goal_queue[g]] = @ + 1]
  /\ UNCHANGED <<topics, running, inbox, starts, client>>

\* The user's callback: publishFeedback, any number of times ...
PublishFeedback ==
  /\ pc = "execute" /\ feedback.body # job
  /\ FeedbackTopic!Publish(job)
  /\ UNCHANGED <<goal, goalCursor, result, resultCursor, server, client>>

\* ... then publishResult, once, and the callback returns.
PublishResult ==
  /\ pc = "execute"
  /\ ResultTopic!Publish(job)
  /\ job' = Nothing /\ pc' = "loop"
  /\ UNCHANGED <<goal, goalCursor, feedback, feedbackCursor,
                 running, inbox, goal_queue, executed, starts, client>>

\* shutdown; the destructor goes on when the thread has left its loop.
Shutdown ==
  /\ running
  /\ running' = FALSE
  /\ UNCHANGED <<topics, pc, inbox, goal_queue, job, executed, starts, client>>

Exit ==
  /\ pc = "loop" /\ ~running
  /\ GoalTopic!Leave(Server)
  /\ pc' = "down" /\ goal_queue' = << >>
  /\ UNCHANGED <<feedback, feedbackCursor, result, resultCursor,
                 running, inbox, job, executed, starts, client>>

\* The process is killed, outside a publish or receive.
Crash ==
  /\ pc # "down"
  /\ goalCursor' = [goalCursor EXCEPT ![Server] = -1]
  /\ pc' = "down" /\ running' = FALSE
  /\ inbox' = Nothing /\ goal_queue' = << >> /\ job' = Nothing
  /\ UNCHANGED <<goal, feedback, feedbackCursor, result, resultCursor, executed, starts, client>>
-----------------------------------------------------------------------------
(* A client. *)

\* The constructor.  The topics it subscribes to, and the cancel service, have
\* to be there, so some server has been started.
Construct(c) ==
  /\ life[c] = "absent" /\ starts > 0
  /\ FeedbackTopic!Join(c) /\ ResultTopic!Join(c)
  /\ life' = [life EXCEPT ![c] = "here"]
  /\ UNCHANGED <<goal, goalCursor, server, next_goal_id, feedbacks, results>>

sendGoal(c) ==
  /\ life[c] = "here" /\ next_goal_id[c] < MaxGoals /\ goal.seq < MaxSends
  /\ GoalTopic!Publish([from |-> c, id |-> next_goal_id[c]])
  /\ next_goal_id' = [next_goal_id EXCEPT ![c] = @ + 1]
  /\ UNCHANGED <<feedback, feedbackCursor, result, resultCursor, server,
                 life, feedbacks, results>>

\* feedbackLoop.  Between the receive and the dictionary the message is in the
\* thread's own buffer, so the two are one step.
HearFeedback(c) ==
  LET m == feedback.body
  IN  /\ FeedbackTopic!Take(c)
      /\ feedbacks' = [feedbacks EXCEPT ![c][m.id] = m]
      /\ UNCHANGED <<goal, goalCursor, result, resultCursor, server,
                     life, next_goal_id, results>>

\* Mutant: a result is taken for the answer to the goal sent last.
BugHearResult(c) ==
  LET m == result.body
  IN  /\ ResultTopic!Take(c)
      /\ results' = IF next_goal_id[c] = 0 THEN results
                    ELSE [results EXCEPT ![c][next_goal_id[c] - 1] = m]
      /\ UNCHANGED <<goal, goalCursor, feedback, feedbackCursor, server,
                     life, next_goal_id, feedbacks>>

\* resultLoop
HearResult(c) ==
  LET m == result.body
  IN  /\ ResultTopic!Take(c)
      /\ results' = [results EXCEPT ![c][m.id] = m]
      /\ UNCHANGED <<goal, goalCursor, feedback, feedbackCursor, server,
                     life, next_goal_id, feedbacks>>

getResult(c, g) ==
  /\ results[c][g] # Nothing
  /\ results' = [results EXCEPT ![c][g] = Nothing]
  /\ UNCHANGED <<topics, server, life, next_goal_id, feedbacks>>

getFeedback(c, g) ==
  /\ feedbacks[c][g] # Nothing
  /\ feedbacks' = [feedbacks EXCEPT ![c][g] = Nothing]
  /\ UNCHANGED <<topics, server, life, next_goal_id, results>>

\* The destructor, after its two threads have come to the end of their loops.
Destroy(c) ==
  /\ life[c] = "here"
  /\ FeedbackTopic!Leave(c) /\ ResultTopic!Leave(c)
  /\ life' = [life EXCEPT ![c] = "gone"]
  /\ feedbacks' = [feedbacks EXCEPT ![c] = [g \in GoalIds |-> Nothing]]
  /\ results' = [results EXCEPT ![c] = [g \in GoalIds |-> Nothing]]
  /\ UNCHANGED <<goal, goalCursor, server, next_goal_id>>

ProcessLoop ==
  \/ Loop \/ ReceiveGoal \/ ReceiveNothing \/ Accept \/ Pick
  \/ PublishFeedback \/ PublishResult \/ Exit

ActionNext ==
  \/ Start \/ ProcessLoop \/ Shutdown \/ Crash
  \/ \E c \in Clients :
       \/ Construct(c) \/ sendGoal(c) \/ Destroy(c)
       \/ HearFeedback(c) \/ HearResult(c)
       \/ \E g \in GoalIds : getResult(c, g) \/ getFeedback(c, g)

ActionSpec == ActionInit /\ [][ActionNext]_ActionVars

\* The threads of server and clients keep running, and callbacks return.
Fairness ==
  /\ WF_ActionVars(ProcessLoop)
  /\ \A c \in Clients : WF_ActionVars(HearResult(c))

FairActionSpec == ActionSpec /\ Fairness
-----------------------------------------------------------------------------
Cursors == -1 .. MsgMod - 1

ActionTypeOK ==
  /\ goal \in GoalTopic!Messages /\ feedback \in FeedbackTopic!Messages
  /\ result \in ResultTopic!Messages
  /\ goalCursor \in [{Server} -> Cursors]
  /\ feedbackCursor \in [Clients -> Cursors] /\ resultCursor \in [Clients -> Cursors]
  /\ pc \in {"down", "loop", "receive", "accept", "pick", "execute"} /\ running \in BOOLEAN
  /\ inbox \in Goals \cup {Nothing} /\ job \in Goals \cup {Nothing}
  /\ DOMAIN goal_queue \subseteq GoalIds
  /\ \A g \in DOMAIN goal_queue : goal_queue[g] \in Goals
  /\ executed \in [Goals -> Nat] /\ starts \in 0 .. MaxStarts
  /\ life \in [Clients -> {"absent", "here", "gone"}]
  /\ next_goal_id \in [Clients -> 0 .. MaxGoals]
  /\ feedbacks \in [Clients -> [GoalIds -> Goals \cup {Nothing}]]
  /\ results \in [Clients -> [GoalIds -> Goals \cup {Nothing}]]

\* A client is answered for another client's goal only under a number that
\* client has used as well: a number nobody else has used is as good as an
\* identity, however goals and answers overtake each other.
OwnAnswers ==
  \A c \in Clients, g \in GoalIds :
     (\A d \in Clients \ {c} : next_goal_id[d] <= g) =>
        /\ results[c][g] \in {Nothing, [from |-> c, id |-> g]}
        /\ feedbacks[c][g] \in {Nothing, [from |-> c, id |-> g]}
        /\ results[c][g] # Nothing => g < next_goal_id[c]

\* No goal is executed twice, also not by a server that was started after the
\* one that executed it was killed.
GoalOnce == \A m \in Goals : executed[m] <= 1

\* goal_queue_, an ordered map, never holds more than one goal: the number of a
\* goal decides nothing about when it is executed, and two clients' goals of
\* the same number never meet in it.  What waits for its turn waits in the
\* goal topic, where only the newest is kept.
QueueOfOne == Cardinality(DOMAIN goal_queue) <= 1

\* The last goal sent to a server that listens is answered: its client finds
\* the result, unless it is gone, the server is, or another goal is sent.
Listening(m) == goal.body = m /\ goalCursor[Server] # -1 /\ goalCursor[Server] < goal.seq
LastGoalAnswered ==
  \A m \in Goals :
     Listening(m) ~> \/ results[m.from][m.id] = m \/ life[m.from] = "gone"
                     \/ goal.body # m \/ ~running
=============================================================================
