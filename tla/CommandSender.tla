--------------------------- MODULE CommandSender ---------------------------
(***************************************************************************)
(* MavlinkCommandSender: the commands that the vehicle sends over its      *)
(* MAVLink channels and repeats on each of them until one is acknowledged  *)
(* (modules/mavlink_new/mavlink_command_sender.cpp, with TimestampedList). *)
(*                                                                         *)
(* Every function holds the semaphore from its beginning to its end, so    *)
(* that it is one step.  Each channel reads the commands in the order in   *)
(* which they were published, and misses some when it is late (DeviceNode) *)
(* or when they are not for it; acknowledgements are lost, delayed,        *)
(* reordered and repeated.                                                 *)
(***************************************************************************)
EXTENDS Integers, FiniteSetsExt, SequencesExt

CONSTANTS Channels,
          Slots,      \* NUM_ITEMS
          Retries,    \* RETRIES
          N,          \* bound: the commands published
          MaxAcks,    \* bound: acknowledgements handled
          MaxStops,   \* bound: instances stopped
          Kind        \* what an acknowledgement of a command names: its number and target

Commands == 1..N

ASSUME SenderAssumption ==
    /\ {Slots, Retries} \subseteq Nat \ {0} /\ {N, MaxAcks} \subseteq Nat
    /\ Kind \in [Commands -> Nat]

VARIABLES
  list,       \* _commands
  order,      \* the slots in use, from the oldest item to the newest
  last,       \* the last command that each channel has read
  acks,       \* number of acknowledgements so far
  stopped,    \* the channels whose MAVLink instance has been stopped
  sent,       \* history: how often each command was sent on each channel, up to the most
              \* that one item allows
  heard,      \* history: the commands that were acknowledged
  cause       \* history: what went wrong with each command

vars == <<list, order, last, acks, stopped, sent, heard, cause>>

Off == -1       \* the channel did not request this command to be sent
Acked == -2     \* the channel got an acknowledgement of this command
Free == [used |-> FALSE]
Used == {s \in 1..Slots : list[s].used}

Init ==
    /\ list = [s \in 1..Slots |-> Free]
    /\ order = <<>>
    /\ acks = 0
    /\ last = [ch \in Channels |-> 0]
    /\ stopped = {}
    /\ sent = [c \in Commands |-> [ch \in Channels |-> 0]]
    /\ heard = {}
    /\ cause = [c \in Commands |-> {}]
-----------------------------------------------------------------------------
Least(a, b) == IF a < b THEN a ELSE b
More(n) == Least(n + 1, Retries + 1)

\* The slots of the list but those of S, in their order
Without(S) ==
    LET left[n \in 0..Len(order)] ==
          IF n = 0 THEN <<>>
          ELSE IF order[n] \in S THEN left[n - 1]
          ELSE Append(left[n - 1], order[n])
    IN  left[Len(order)]

\* put: the first free slot, or that of the oldest item
Place ==
    IF Used # 1..Slots THEN Min((1..Slots) \ Used)
    ELSE Head(order)

\* The command is new in the list.  It may have been there before, and its item takes
\* the place of another when the list is full.
Put(ch, c) ==
    LET s == Place
        lost == IF list[s].used THEN {list[s].command} ELSE {}
    IN
    /\ list' = [list EXCEPT ![s] = [used |-> TRUE, command |-> c, waiting |-> TRUE,
                                    num |-> [d \in Channels |-> IF d = ch THEN 0 ELSE Off]]]
    /\ order' = Append(Without({s}), s)
    /\ cause' = [d \in Commands |->
                   cause[d] \cup (IF d \in lost THEN {"overwritten"} ELSE {})
                            \cup (IF d = c /\ \E e \in Channels : sent[c][e] > 0
                                  THEN {"again"} ELSE {})]

Activate(ch, s) ==
    /\ list' = [list EXCEPT ![s].num[ch] = 0]
    /\ UNCHANGED <<order, cause>>

\* handle_vehicle_command, when the channel reads the command c from the topic
HandleVehicleCommand(ch, c) ==
    /\ ch \notin stopped
    /\ c > last[ch]
    /\ last' = [last EXCEPT ![ch] = c]
    /\ sent' = [sent EXCEPT ![c][ch] = More(@)]
    /\ \/ \E s \in Used : list[s].command = c /\ Activate(ch, s)
       \/ (\A s \in Used : list[s].command # c) /\ Put(ch, c)
    /\ UNCHANGED <<acks, stopped, heard>>

\* The items that an acknowledgement of c on the channel ch matches
Matching(ch, c) ==
    {s \in Used : Kind[list[s].command] = Kind[c] /\ list[s].num[ch] # Off}

\* handle_mavlink_command_ack: the first item that matches is even if it is
\* marked already.  The receiver acknowledges what was sent on the channel.
HandleCommandAck(ch, c) ==
    /\ ch \notin stopped
    /\ sent[c][ch] > 0
    /\ acks < MaxAcks
    /\ acks' = acks + 1
    /\ heard' = heard \cup {c}
    /\ IF Matching(ch, c) = {}
       THEN UNCHANGED <<list, cause>>
       ELSE LET s == Min(Matching(ch, c)) IN
            /\ list' = [list EXCEPT ![s].num[ch] = Acked]
            /\ cause' = IF list[s].command = c THEN cause
                        ELSE [cause EXCEPT ![c] = @ \cup {"shadowed"}]
    /\ UNCHANGED <<order, last, stopped, sent>>

Due(s) == list[s].used /\ ~list[s].waiting

\* Mutant of AckedItem: every channel waits for an acknowledgement of its own.
AckedByAll(s) == \A d \in Channels : list[s].num[d] \in {Off, Acked}

AckedItem(s) == \E d \in Channels : list[s].num[d] = Acked

\* The channel has sent it less often than another (max_sent).
Behind(ch, s) ==
    list[s].num[ch] # Off /\ \E d \in Channels : list[s].num[ch] < list[s].num[d]

\* Mutant of First: the channel does not wait for the others.
FirstAlone(ch, s) ==
    list[s].num[ch] # Off /\ \A d \in Channels : list[s].num[d] <= list[s].num[ch]

\* All active channels have caught up (min_sent = max_sent): the channel begins the next
\* retry.
First(ch, s) ==
    list[s].num[ch] # Off /\ \A d \in Channels : list[s].num[d] \in {Off, list[s].num[ch]}

\* Mutant of Drops: one retry more.
DropsLate(ch, s) == Due(s) /\ (AckedItem(s) \/ (First(ch, s) /\ list[s].num[ch] > Retries))

Drops(ch, s) == Due(s) /\ (AckedItem(s) \/ (First(ch, s) /\ list[s].num[ch] + 1 > Retries))
Repeats(ch, s) == Due(s) /\ ~AckedItem(s) /\ ~Drops(ch, s) /\ (Behind(ch, s) \/ First(ch, s))

\* check_timeout, which goes through the whole list; the timeout of an item begins anew
\* with the first channel of a retry.
CheckTimeout(ch) ==
    /\ ch \notin stopped
    /\ UNCHANGED <<last, acks, stopped, heard, cause>>
    /\ list' = [s \in 1..Slots |->
                  IF Drops(ch, s) THEN Free
                  ELSE IF Repeats(ch, s)
                  THEN [list[s] EXCEPT !.num[ch] = @ + 1, !.waiting = ~Behind(ch, s)]
                  ELSE list[s]]
    /\ order' = Without({s \in Used : Drops(ch, s)})
    /\ sent' = [c \in Commands |-> [d \in Channels |->
                  IF d = ch /\ \E s \in Used : list[s].command = c /\ Repeats(ch, s)
                  THEN More(sent[c][d]) ELSE sent[c][d]]]

\* The timeout of an item passes.
Elapse(s) ==
    /\ list[s].used /\ list[s].waiting
    /\ list' = [list EXCEPT ![s].waiting = FALSE]
    /\ UNCHANGED <<order, last, acks, stopped, sent, heard, cause>>

\* The MAVLink instance of the channel is stopped.
Stop(ch) ==
    /\ ch \notin stopped /\ Cardinality(stopped) < MaxStops
    /\ stopped' = stopped \cup {ch}
    /\ UNCHANGED <<list, order, last, acks, sent, heard, cause>>

Next ==
    \/ \E ch \in Channels :
        \/ \E c \in Commands : HandleVehicleCommand(ch, c) \/ HandleCommandAck(ch, c)
        \/ CheckTimeout(ch)
        \/ Stop(ch)
    \/ \E s \in 1..Slots : Elapse(s)

\* A channel that is not stopped goes on checking, and time passes.
Fairness ==
    /\ \A ch \in Channels : WF_vars(CheckTimeout(ch))
    /\ WF_vars(\E s \in 1..Slots : Elapse(s))

Spec == Init /\ [][Next]_vars /\ Fairness
-----------------------------------------------------------------------------
Listed(c) == \E s \in Used : list[s].command = c

\* The types of the variables.
TypeOK ==
    /\ list \in [1..Slots -> {Free} \cup [used : {TRUE}, command : Commands,
                                          waiting : BOOLEAN, num : [Channels -> -2..Retries]]]
    /\ order \in Seq(1..Slots) /\ ToSet(order) = Used /\ Len(order) = Cardinality(Used)
    /\ last \in [Channels -> 0..N]
    /\ stopped \subseteq Channels
    /\ sent \in [Commands -> [Channels -> 0..Retries + 1]]
    /\ acks \in 0..MaxAcks /\ heard \subseteq Commands
    /\ cause \in [Commands -> SUBSET {"overwritten", "again", "shadowed"}]

\* A command that was acknowledged is not sent again on a channel on which it was sent.
\* It is when the acknowledgement was taken for an equal command that is in an earlier
\* slot, or when a channel read the command only after its item had been dropped.
AckedNotResent ==
    [][\A c \in heard : \A ch \in Channels :
         sent[c][ch] > 0 /\ cause[c] \cap {"shadowed", "again"} = {} => sent'[c][ch] = sent[c][ch]]_vars

\* Sent as often as it may be on every channel that has read it
Exhausted(c) == \A ch \in Channels : sent[c][ch] = 0 \/ sent[c][ch] > Retries

\* A command is given up for a reason: it or an equal one was acknowledged, it was sent
\* as often as it may be on every channel, or it was displaced by newer ones.
GivenUp(c) ==
    /\ ~Listed(c)
    /\ (\E d \in heard : Kind[d] = Kind[c]) \/ Exhausted(c) \/ "overwritten" \in cause[c]

\* The command stays in the list because a channel was stopped: it is behind the others,
\* which wait for it, or no other channel sends the command.
Stuck(c) ==
    \E s \in Used :
        /\ list[s].command = c
        /\ \/ \E ch \in stopped : Behind(ch, s)
           \/ \A ch \in Channels \ stopped : list[s].num[ch] = Off

\* In the end every command is given up, for one of these reasons, unless a channel that
\* was stopped keeps it.
CommandsEnd == <>[](\A c \in Commands : GivenUp(c) \/ Stuck(c))
=============================================================================
