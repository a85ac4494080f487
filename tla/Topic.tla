------------------------------- MODULE Topic -------------------------------
(***************************************************************************)
(* What a uORB topic promises its subscribers, as the repository's own     *)
(* unit test states it (uORB_tests/uORBTest_UnitTest.cpp, test_queue and   *)
(* test_single): a topic keeps the last QueueSize messages; a subscriber   *)
(* that keeps up receives every message once and in order; one that falls  *)
(* behind by more than QueueSize continues with the oldest message still   *)
(* kept; one that copies with nothing new receives the latest message      *)
(* again.                                                                  *)
(*                                                                         *)
(* A message is its number in the order of publication: 1, 2, ...          *)
(***************************************************************************)
EXTENDS Integers

CONSTANTS Subscribers,   \* the subscriptions to the topic
          QueueSize      \* o_queue of the topic: messages kept

VARIABLES sent,          \* number of messages published so far
          seen,          \* seen[s]: number of the last message s is done with
          got            \* got[s]: last message copied by s since it joined, 0 if none

topicVars == <<sent, seen, got>>

TopicInit ==
    /\ sent = 0
    /\ seen = [s \in Subscribers |-> 0]
    /\ got = [s \in Subscribers |-> 0]

\* The message a copy by s must return.
Due(s) ==
    IF seen[s] = sent
      THEN sent
      ELSE IF seen[s] + QueueSize < sent THEN sent - QueueSize + 1 ELSE seen[s] + 1

Send ==
    /\ sent' = sent + 1
    /\ UNCHANGED <<seen, got>>

\* A new subscriber starts just before the latest message.
Join(s) ==
    /\ seen' = [seen EXCEPT ![s] = IF sent > 0 THEN sent - 1 ELSE 0]
    /\ got' = [got EXCEPT ![s] = 0]
    /\ UNCHANGED sent

Leave(s) ==
    /\ seen' = [seen EXCEPT ![s] = 0]
    /\ UNCHANGED <<sent, got>>

Receive(s) ==
    /\ sent > 0
    /\ got' = [got EXCEPT ![s] = Due(s)]
    /\ seen' = [seen EXCEPT ![s] = Due(s)]
    /\ UNCHANGED sent

TopicNext ==
    \/ Send
    \/ \E s \in Subscribers : Join(s) \/ Leave(s) \/ Receive(s)

TopicSpec == TopicInit /\ [][TopicNext]_topicVars
=============================================================================
