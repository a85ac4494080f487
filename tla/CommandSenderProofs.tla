------------------------ MODULE CommandSenderProofs ------------------------
(***************************************************************************)
(* A command that was acknowledged is not sent again, for any number of    *)
(* channels, slots, retries and commands, but for the recorded causes.     *)
(* The inductive invariant says what an item has to do with the commands   *)
(* that its channels have read: every channel that has sent a command has  *)
(* a part in its item (Asked) and has read it (Read, SentRead), so that an *)
(* acknowledgement marks the item of its command (Marked).                 *)
(*                                                                         *)
(* The list itself stays sound: its order holds the slots in use and each  *)
(* of them once (InOrder), whatever is put into it and dropped from it, so *)
(* that a new item always takes a slot of the list (PlaceIs).              *)
(***************************************************************************)
EXTENDS CommandSender, SequenceTheorems, FiniteSetTheorems, WellFoundedInduction, TLAPS

Item == [used : {TRUE}, command : Commands, waiting : BOOLEAN, num : [Channels -> -2..Retries]]
Causes == {"overwritten", "again", "shadowed"}

Types ==
    /\ list \in [1..Slots -> {Free} \cup Item]
    /\ last \in [Channels -> 0..N]
    /\ sent \in [Commands -> [Channels -> 0..Retries + 1]]
    /\ heard \subseteq Commands
    /\ cause \in [Commands -> SUBSET Causes]

\* A command has one item at most.
Single == \A s, r \in Used : list[s].command = list[r].command => s = r

\* A channel has passed what it has a part in, and what it has sent.
Read == \A s \in Used : \A ch \in Channels : list[s].num[ch] # Off => list[s].command <= last[ch]
SentRead == \A c \in Commands : \A ch \in Channels : sent[c][ch] > 0 => c <= last[ch]

\* A channel that has sent a command has a part in its item, unless it was put into
\* the list again.
AskedOf(s) ==
    \A ch \in Channels :
        "again" \notin cause[list[s].command] /\ sent[list[s].command][ch] > 0
        => list[s].num[ch] # Off

Asked == \A s \in Used : AskedOf(s)

\* What was acknowledged was sent.
HeardSent == \A c \in heard : \E ch \in Channels : sent[c][ch] > 0

\* The item of an acknowledged command is marked, but for the recorded causes.
MarkedOf(s) ==
    list[s].command \in heard /\ cause[list[s].command] \cap {"shadowed", "again"} = {}
    => AckedItem(s)

Marked == \A s \in Used : MarkedOf(s)

IInv == Types /\ Single /\ Read /\ SentRead /\ Asked /\ HeardSent /\ Marked
-----------------------------------------------------------------------------
\* The least number of a set of numbers.
LEMMA LeastNat == ASSUME NEW S \in SUBSET Nat, S # {} PROVE \E k \in S : \A m \in S : k <= m
<1> DEFINE R == OpToRel(<, Nat)
<1>1. IsWellFoundedOn(R, Nat)
  BY NatLessThanWellFounded, Zenon
<1>2. \A x, y \in Nat : x < y => <<x, y>> \in R
  BY Zenon DEF OpToRel
<1> HIDE DEF R
<1>4. PICK k \in S : \A m \in S : ~ (<<m, k>> \in R)
  BY <1>1, WFMin, Zenon
<1>5. \A m \in S : ~ (m < k)
  BY <1>2, <1>4, Zenon
<1> QED
  BY <1>5

LEMMA LeastOf ==
    ASSUME NEW n \in Nat, NEW S \in SUBSET (1..n), S # {}
    PROVE  \E k \in S : \A m \in S : k <= m
<1>1. S \in SUBSET Nat
  OBVIOUS
<1> QED
  BY <1>1, LeastNat

LEMMA ItemIs ==
    ASSUME Types, NEW s \in Used
    PROVE  /\ s \in 1..Slots /\ list[s] \in Item
           /\ list[s].used = TRUE /\ list[s].command \in Commands
           /\ list[s].waiting \in BOOLEAN
           /\ list[s].num \in [Channels -> -2..Retries]
<1>1. s \in 1..Slots /\ list[s].used
  BY DEF Used
<1>2. list[s] \in {Free} \cup Item
  BY <1>1 DEF Types
<1>3. list[s] # Free
  BY <1>1 DEF Free
<1>4. list[s] \in Item
  BY <1>2, <1>3
<1> QED
  BY <1>1, <1>4 DEF Item

LEMMA InitIInv == Init => IInv
<1> SUFFICES ASSUME Init PROVE IInv
  OBVIOUS
<1> USE DEF Init
<1>1. Used = {}
  BY DEF Used, Free
<1>2. Types
  BY SenderAssumption DEF Types, Commands
<1>3. SentRead
  BY DEF SentRead
<1> QED
  BY <1>1, <1>2, <1>3 DEF IInv, Single, Read, Asked, HeardSent, Marked

\* The history of what was sent only grows.
LEMMA Grows ==
    ASSUME Types, NEW c \in Commands, NEW ch \in Channels
    PROVE  /\ More(sent[c][ch]) \in 1..Retries + 1
           /\ sent[c][ch] \in 0..Retries + 1
<1>1. sent[c][ch] \in 0..Retries + 1 /\ Retries \in Nat
  BY SenderAssumption DEF Types
<1> QED
  BY <1>1 DEF More, Least

LEMMA SentOnce ==
    ASSUME Types, NEW ch \in Channels, NEW c \in Commands, HandleVehicleCommand(ch, c)
    PROVE  /\ sent' \in [Commands -> [Channels -> 0..Retries + 1]]
           /\ \A e \in Commands, d \in Channels : sent[e][d] > 0 => sent'[e][d] > 0
           /\ \A e \in Commands, d \in Channels : e # c \/ d # ch => sent'[e][d] = sent[e][d]
<1>1. sent' = [sent EXCEPT ![c][ch] = More(@)]
  BY DEF HandleVehicleCommand
<1> QED
  BY <1>1, Grows DEF Types

LEMMA ActivateIInv ==
    ASSUME IInv, NEW ch \in Channels, NEW c \in Commands, HandleVehicleCommand(ch, c),
           NEW s \in Used, list[s].command = c, Activate(ch, s)
    PROVE  IInv'
<1> DEFINE num == [list[s].num EXCEPT ![ch] = 0]
           item == [list[s] EXCEPT !.num = num]
<1>1. Types /\ Single /\ Read /\ SentRead /\ Asked /\ HeardSent /\ Marked
  BY DEF IInv
<1>2. /\ list' = [list EXCEPT ![s].num[ch] = 0]
      /\ c > last[ch]
      /\ last' = [last EXCEPT ![ch] = c]
      /\ sent' = [sent EXCEPT ![c][ch] = More(@)]
      /\ UNCHANGED <<heard, cause>>
  BY DEF HandleVehicleCommand, Activate
<1>3. last[ch] \in 0..N /\ N \in Nat /\ Retries \in Nat
  BY <1>1, SenderAssumption DEF Types
<1>4. /\ s \in 1..Slots /\ list[s] \in Item /\ list[s].used
      /\ list[s].num \in [Channels -> -2..Retries]
  BY <1>1, ItemIs
<1>5. num \in [Channels -> -2..Retries]
  BY <1>3, <1>4
<1>6. /\ num[ch] = 0
      /\ \A d \in Channels : d # ch => num[d] = list[s].num[d]
  BY <1>4
<1>7. list' = [list EXCEPT ![s] = item]
  BY <1>2, Zenon
<1> HIDE DEF num
<1>8. /\ item \in Item /\ item.used = TRUE /\ item.num = num
      /\ item.command = c /\ item.waiting = list[s].waiting
  BY <1>4, <1>5 DEF Item
<1> HIDE DEF item
<1>9. /\ list' \in [1..Slots -> {Free} \cup Item]
      /\ list'[s] = item
      /\ \A r \in 1..Slots : r # s => list'[r] = list[r]
  BY <1>1, <1>4, <1>7, <1>8 DEF Types
<1>10. Used' = Used
  BY <1>4, <1>8, <1>9 DEF Used
<1>11. /\ sent' \in [Commands -> [Channels -> 0..Retries + 1]]
       /\ \A e \in Commands, d \in Channels : sent[e][d] > 0 => sent'[e][d] > 0
       /\ \A e \in Commands, d \in Channels : e # c \/ d # ch => sent'[e][d] = sent[e][d]
  BY <1>1, SentOnce
<1>12. /\ last' \in [Channels -> 0..N]
       /\ \A d \in Channels : last[d] <= last'[d]
       /\ last'[ch] = c
  BY <1>1, <1>2, <1>3 DEF Types, Commands
<1>13. \A r \in Used : list'[r].command = list[r].command /\ r \in 1..Slots
  BY <1>1, <1>4, <1>8, <1>9, ItemIs
<1>14. Types'
  BY <1>1, <1>2, <1>9, <1>11, <1>12 DEF Types
<1>15. Single'
  BY <1>1, <1>10, <1>13 DEF Single
<1>16. Read'
  <2>1. SUFFICES ASSUME NEW r \in Used, NEW d \in Channels, list'[r].num[d] # Off
                 PROVE  list[r].command <= last'[d]
    BY <1>10, <1>13 DEF Read
  <2>2. CASE r = s /\ d = ch
    BY <1>3, <1>12, <2>2 DEF Commands
  <2>3. CASE ~(r = s /\ d = ch)
    <3>1. list[r].num[d] # Off
      BY <1>6, <1>8, <1>9, <1>13, <2>1, <2>3
    <3>2. list[r].command <= last[d] /\ list[r].command \in Commands /\ last[d] \in 0..N
      BY <1>1, <3>1, ItemIs DEF Read, Types
    <3> QED
      BY <1>12, <3>2 DEF Commands, Types
  <2> QED
    BY <2>2, <2>3
<1>17. SentRead'
  <2>1. SUFFICES ASSUME NEW e \in Commands, NEW d \in Channels, sent'[e][d] > 0
                 PROVE  e <= last'[d]
    BY DEF SentRead
  <2>2. CASE e = c /\ d = ch
    BY <1>12, <2>2 DEF Commands
  <2>3. CASE ~(e = c /\ d = ch)
    <3>1. e <= last[d] /\ last[d] \in 0..N
      BY <1>1, <1>11, <2>1, <2>3 DEF SentRead, Types
    <3> QED
      BY <1>12, <3>1 DEF Commands, Types
  <2> QED
    BY <2>2, <2>3
<1>18. HeardSent'
  BY <1>1, <1>2, <1>11 DEF HeardSent, Types
<1>19. Asked'
  <2>1. SUFFICES ASSUME NEW r \in Used, NEW d \in Channels,
                        "again" \notin cause[list[r].command], sent'[list[r].command][d] > 0
                 PROVE  list'[r].num[d] # Off
    BY <1>2, <1>10, <1>13 DEF Asked, AskedOf
  <2>2. CASE r = s /\ d = ch
    BY <1>6, <1>8, <1>9, <2>2 DEF Off
  <2>3. CASE ~(r = s /\ d = ch)
    <3>1. list[r].command = c => r = s
      BY <1>1 DEF Single
    <3>2. sent[list[r].command][d] > 0
      BY <1>1, <1>11, <2>1, <2>3, <3>1, ItemIs
    <3>3. list[r].num[d] # Off
      BY <1>1, <2>1, <3>2 DEF Asked, AskedOf
    <3> QED
      BY <1>6, <1>8, <1>9, <1>13, <2>3, <3>3
  <2> QED
    BY <2>2, <2>3
<1>20. Marked'
  <2>1. SUFFICES ASSUME NEW r \in Used, list[r].command \in heard,
                        cause[list[r].command] \cap {"shadowed", "again"} = {}
                 PROVE  AckedItem(r)'
    BY <1>2, <1>10, <1>13 DEF Marked, MarkedOf
  <2>2. PICK d \in Channels : list[r].num[d] = Acked
    BY <1>1, <2>1 DEF Marked, MarkedOf, AckedItem
  <2>3. ~(r = s /\ d = ch)
    <3>1. SUFFICES ASSUME r = s, d = ch PROVE FALSE
      OBVIOUS
    <3>2. c <= last[ch]
      BY <1>1, <2>2, <3>1 DEF Read, Off, Acked
    <3>3. c \in Nat /\ c > last[ch] /\ last[ch] \in Nat
      BY <1>2, <1>3 DEF Commands
    <3> QED
      BY <3>2, <3>3
  <2>4. list'[r].num[d] = Acked
    BY <1>6, <1>8, <1>9, <1>13, <2>2, <2>3
  <2> QED
    BY <2>4 DEF AckedItem
<1> QED
  BY <1>14, <1>15, <1>16, <1>17, <1>18, <1>19, <1>20 DEF IInv

LEMMA PutIs ==
    ASSUME Types, NEW ch \in Channels, NEW c \in Commands, Put(ch, c)
    PROVE  /\ list' \in [1..Slots -> {Free} \cup Item]
           /\ \A r \in Used' :
                \/ r \in Used /\ r # Place /\ list'[r] = list[r]
                \/ /\ r = Place /\ list'[r] \in Item /\ list'[r].command = c
                   /\ list'[r].num = [d \in Channels |-> IF d = ch THEN 0 ELSE Off]
           /\ cause' \in [Commands -> SUBSET Causes]
           /\ \A d \in Commands : cause[d] \subseteq cause'[d]
           /\ \A e \in Channels : sent[c][e] > 0 => "again" \in cause'[c]
<1> DEFINE num == [d \in Channels |-> IF d = ch THEN 0 ELSE Off]
           new == [used |-> TRUE, command |-> c, waiting |-> TRUE, num |-> num]
<1>1. Retries \in Nat /\ num \in [Channels -> -2..Retries]
  BY SenderAssumption DEF Off
<1> HIDE DEF num
<1>2. /\ new \in Item /\ new.used = TRUE /\ new.command = c /\ new.num = num
  BY <1>1 DEF Item
<1>3. list' = [list EXCEPT ![Place] = new]
  BY DEF Put, num
<1> HIDE DEF new
<1>4. list \in [1..Slots -> {Free} \cup Item]
  BY DEF Types
<1>5. PICK s : s = Place
  OBVIOUS
<1>6. /\ list' \in [1..Slots -> {Free} \cup Item]
      /\ \A r \in 1..Slots : r # s => list'[r] = list[r]
      /\ s \in 1..Slots => list'[s] = new
  BY <1>2, <1>3, <1>4, <1>5
<1>7. ASSUME NEW r \in Used'
      PROVE  \/ r \in Used /\ r # s /\ list'[r] = list[r]
             \/ r = s /\ list'[r] = new
  BY <1>6, <1>7 DEF Used
<1>8. \E lost \in SUBSET Commands :
        cause' = [d \in Commands |->
                    cause[d] \cup (IF d \in lost THEN {"overwritten"} ELSE {})
                             \cup (IF d = c /\ \E e \in Channels : sent[c][e] > 0
                                   THEN {"again"} ELSE {})]
  <2> DEFINE lost == IF list[Place].used THEN {list[Place].command} ELSE {}
  <2>1. cause' = [d \in Commands |->
                    cause[d] \cup (IF d \in lost \cap Commands THEN {"overwritten"} ELSE {})
                             \cup (IF d = c /\ \E e \in Channels : sent[c][e] > 0
                                   THEN {"again"} ELSE {})]
    BY DEF Put
  <2> HIDE DEF lost
  <2> QED
    BY <2>1
<1>9. /\ cause' \in [Commands -> SUBSET Causes]
      /\ \A d \in Commands : cause[d] \subseteq cause'[d]
      /\ \A e \in Channels : sent[c][e] > 0 => "again" \in cause'[c]
  BY <1>8 DEF Types, Causes
<1> QED
  BY <1>2, <1>5, <1>6, <1>7, <1>9 DEF num

LEMMA PutIInv ==
    ASSUME IInv, NEW ch \in Channels, NEW c \in Commands, HandleVehicleCommand(ch, c),
           \A s \in Used : list[s].command # c, Put(ch, c)
    PROVE  IInv'
<1> DEFINE Old(r) == r \in Used /\ list'[r] = list[r] /\ list[r].command # c
           New(r) == /\ list'[r] \in Item /\ list'[r].command = c
                     /\ list'[r].num = [d \in Channels |-> IF d = ch THEN 0 ELSE Off]
<1>1. Types /\ Single /\ Read /\ SentRead /\ Asked /\ HeardSent /\ Marked
  BY DEF IInv
<1>2. /\ c > last[ch]
      /\ last' = [last EXCEPT ![ch] = c]
      /\ sent' = [sent EXCEPT ![c][ch] = More(@)]
      /\ heard' = heard
  BY DEF HandleVehicleCommand
<1>3. last[ch] \in 0..N /\ N \in Nat /\ Retries \in Nat /\ heard \subseteq Commands
  BY <1>1, SenderAssumption DEF Types
<1>4. \A r \in Used' : (Old(r) /\ r # Place) \/ (New(r) /\ r = Place)
  BY <1>1, PutIs
<1>5. /\ list' \in [1..Slots -> {Free} \cup Item]
      /\ cause' \in [Commands -> SUBSET Causes]
      /\ \A d \in Commands : cause[d] \subseteq cause'[d]
      /\ \A e \in Channels : sent[c][e] > 0 => "again" \in cause'[c]
  BY <1>1, PutIs
<1>6. /\ sent' \in [Commands -> [Channels -> 0..Retries + 1]]
      /\ \A e \in Commands, d \in Channels : sent[e][d] > 0 => sent'[e][d] > 0
      /\ \A e \in Commands, d \in Channels : e # c \/ d # ch => sent'[e][d] = sent[e][d]
  BY <1>1, SentOnce
<1>7. /\ last' \in [Channels -> 0..N]
      /\ \A d \in Channels : last[d] <= last'[d]
      /\ last'[ch] = c
  BY <1>1, <1>2, <1>3 DEF Types, Commands
<1>8. Types'
  BY <1>2, <1>3, <1>5, <1>6, <1>7 DEF Types
<1>9. Single'
  BY <1>1, <1>4 DEF Single
<1>10. Read'
  <2>1. SUFFICES ASSUME NEW r \in Used', NEW d \in Channels, list'[r].num[d] # Off
                 PROVE  list'[r].command <= last'[d]
    BY DEF Read
  <2>2. CASE Old(r)
    <3>1. list[r].command <= last[d] /\ list[r].command \in Commands /\ last[d] \in 0..N
      BY <1>1, <2>1, <2>2, ItemIs DEF Read, Types
    <3> QED
      BY <1>7, <2>2, <3>1 DEF Commands, Types
  <2>3. CASE New(r)
    <3>1. d = ch
      BY <2>1, <2>3
    <3> QED
      BY <1>7, <2>3, <3>1 DEF Commands
  <2> QED
    BY <1>4, <2>2, <2>3
<1>11. SentRead'
  <2>1. SUFFICES ASSUME NEW e \in Commands, NEW d \in Channels, sent'[e][d] > 0
                 PROVE  e <= last'[d]
    BY DEF SentRead
  <2>2. CASE e = c /\ d = ch
    BY <1>7, <2>2 DEF Commands
  <2>3. CASE ~(e = c /\ d = ch)
    <3>1. e <= last[d] /\ last[d] \in 0..N
      BY <1>1, <1>6, <2>1, <2>3 DEF SentRead, Types
    <3> QED
      BY <1>7, <3>1 DEF Commands, Types
  <2> QED
    BY <2>2, <2>3
<1>12. HeardSent'
  BY <1>1, <1>2, <1>3, <1>6 DEF HeardSent
<1>13. Asked'
  <2>1. SUFFICES ASSUME NEW r \in Used', NEW d \in Channels,
                        "again" \notin cause'[list'[r].command], sent'[list'[r].command][d] > 0
                 PROVE  list'[r].num[d] # Off
    BY DEF Asked, AskedOf
  <2>2. CASE Old(r)
    <3>1. list[r].command \in Commands
      BY <1>1, <2>2, ItemIs
    <3>2. "again" \notin cause[list[r].command] /\ sent[list[r].command][d] > 0
      BY <1>5, <1>6, <2>1, <2>2, <3>1
    <3> QED
      BY <1>1, <2>2, <3>2 DEF Asked, AskedOf
  <2>3. CASE New(r)
    <3>1. d # ch => sent[c][d] > 0
      BY <1>6, <2>1, <2>3
    <3>2. d = ch
      BY <1>5, <2>1, <2>3, <3>1
    <3> QED
      BY <2>3, <3>2 DEF Off
  <2> QED
    BY <1>4, <2>2, <2>3
<1>14. Marked'
  <2>1. SUFFICES ASSUME NEW r \in Used', list'[r].command \in heard,
                        cause'[list'[r].command] \cap {"shadowed", "again"} = {}
                 PROVE  AckedItem(r)'
    BY <1>2 DEF Marked, MarkedOf
  <2>2. CASE Old(r)
    <3>1. cause[list[r].command] \cap {"shadowed", "again"} = {}
      BY <1>3, <1>5, <2>1, <2>2
    <3> QED
      BY <1>1, <2>1, <2>2, <3>1 DEF Marked, MarkedOf, AckedItem
  <2>3. CASE New(r)
    BY <1>1, <1>5, <2>1, <2>3 DEF HeardSent
  <2> QED
    BY <1>4, <2>2, <2>3
<1> QED
  BY <1>8, <1>9, <1>10, <1>11, <1>12, <1>13, <1>14 DEF IInv

LEMMA MatchingLeast ==
    ASSUME Types, NEW ch \in Channels, NEW c \in Commands, Matching(ch, c) # {}
    PROVE  Min(Matching(ch, c)) \in Matching(ch, c)
<1>1. Matching(ch, c) \in SUBSET (1..Slots) /\ Slots \in Nat
  BY SenderAssumption DEF Matching, Used
<1>2. PICK k \in Matching(ch, c) : \A m \in Matching(ch, c) : k <= m
  BY <1>1, LeastOf
<1> QED
  BY <1>2 DEF Min

LEMMA AckIInv ==
    ASSUME IInv, NEW ch \in Channels, NEW c \in Commands, HandleCommandAck(ch, c)
    PROVE  IInv'
<1>1. Types /\ Single /\ Read /\ SentRead /\ Asked /\ HeardSent /\ Marked
  BY DEF IInv
<1>2. /\ sent[c][ch] > 0
      /\ heard' = heard \cup {c}
      /\ UNCHANGED <<last, sent>>
  BY DEF HandleCommandAck
<1>3. Types => heard' \subseteq Commands
  BY <1>2 DEF Types
<1>4. SentRead' /\ HeardSent'
  BY <1>1, <1>2 DEF SentRead, HeardSent
<1>5. CASE Matching(ch, c) = {}
  <2>1. UNCHANGED <<list, cause>>
    BY <1>5 DEF HandleCommandAck
  <2>2. Used' = Used
    BY <2>1 DEF Used
  <2>3. Types' /\ Single' /\ Read' /\ Asked'
    BY <1>1, <1>2, <1>3, <2>1, <2>2 DEF Types, Single, Read, Asked, AskedOf
  <2>4. Marked'
    <3>1. SUFFICES ASSUME NEW r \in Used, list[r].command \in heard \cup {c},
                          cause[list[r].command] \cap {"shadowed", "again"} = {}
                   PROVE  AckedItem(r)
      BY <1>2, <2>1, <2>2 DEF Marked, MarkedOf, AckedItem
    <3>2. CASE list[r].command = c
      <4>1. list[r].num[ch] # Off
        BY <1>1, <1>2, <3>1, <3>2 DEF Asked, AskedOf
      <4> QED
        BY <1>5, <3>2, <4>1 DEF Matching
    <3>3. CASE list[r].command # c
      BY <1>1, <3>1, <3>3 DEF Marked, MarkedOf
    <3> QED
      BY <3>2, <3>3
  <2> QED
    BY <1>4, <2>3, <2>4 DEF IInv
<1>6. CASE Matching(ch, c) # {}
  <2>1. PICK s \in Matching(ch, c) : s = Min(Matching(ch, c))
    BY <1>1, <1>6, MatchingLeast
  <2>2. /\ list' = [list EXCEPT ![s].num[ch] = Acked]
        /\ cause' = IF list[s].command = c THEN cause
                    ELSE [cause EXCEPT ![c] = @ \cup {"shadowed"}]
    BY <1>6, <2>1 DEF HandleCommandAck
  <2>3. s \in Used /\ list[s].num[ch] # Off
    BY DEF Matching
  <2> DEFINE num == [list[s].num EXCEPT ![ch] = Acked]
             item == [list[s] EXCEPT !.num = num]
  <2>4. /\ s \in 1..Slots /\ list[s] \in Item /\ list[s].used /\ Retries \in Nat
        /\ list[s].num \in [Channels -> -2..Retries] /\ list[s].command \in Commands
    BY <1>1, <2>3, ItemIs, SenderAssumption
  <2>5. /\ num \in [Channels -> -2..Retries] /\ num[ch] = Acked
        /\ \A d \in Channels : d # ch => num[d] = list[s].num[d]
    BY <2>4 DEF Acked
  <2>6. list' = [list EXCEPT ![s] = item]
    BY <2>2, Zenon
  <2> HIDE DEF num
  <2>7. /\ item \in Item /\ item.used = TRUE /\ item.num = num
        /\ item.command = list[s].command
    BY <2>4, <2>5 DEF Item
  <2> HIDE DEF item
  <2>8. /\ list' \in [1..Slots -> {Free} \cup Item]
        /\ list'[s] = item
        /\ \A r \in 1..Slots : r # s => list'[r] = list[r]
    BY <1>1, <2>4, <2>6, <2>7 DEF Types
  <2>9. Used' = Used
    BY <2>4, <2>7, <2>8 DEF Used
  <2>10. \A r \in Used : /\ r \in 1..Slots /\ list'[r].command = list[r].command
                         /\ list[r].command \in Commands
    BY <1>1, <2>7, <2>8, ItemIs
  <2>11. \A r \in Used, d \in Channels :
           \/ list'[r].num[d] = list[r].num[d]
           \/ r = s /\ d = ch /\ list'[r].num[d] = Acked
    BY <2>5, <2>7, <2>8, <2>10
  <2>12. /\ cause' \in [Commands -> SUBSET Causes]
         /\ \A d \in Commands : cause[d] \subseteq cause'[d]
         /\ list[s].command # c => "shadowed" \in cause'[c]
    BY <1>1, <2>2 DEF Types, Causes
  <2>13. Types'
    BY <1>1, <1>2, <1>3, <2>8, <2>12 DEF Types
  <2>14. Single'
    BY <1>1, <2>9, <2>10 DEF Single
  <2>15. Read'
    BY <1>1, <1>2, <2>3, <2>9, <2>10, <2>11 DEF Read
  <2>16. Asked'
    <3>1. SUFFICES ASSUME NEW r \in Used, NEW d \in Channels,
                          "again" \notin cause'[list[r].command], sent[list[r].command][d] > 0
                   PROVE  list'[r].num[d] # Off
      BY <1>2, <2>9, <2>10 DEF Asked, AskedOf
    <3>2. list[r].num[d] # Off
      BY <1>1, <2>10, <2>12, <3>1 DEF Asked, AskedOf
    <3> QED
      BY <2>11, <3>2 DEF Off, Acked
  <2>17. Marked'
    <3>1. SUFFICES ASSUME NEW r \in Used, list[r].command \in heard \cup {c},
                          cause'[list[r].command] \cap {"shadowed", "again"} = {}
                   PROVE  \E d \in Channels : list'[r].num[d] = Acked
      BY <1>2, <2>9, <2>10 DEF Marked, MarkedOf, AckedItem
    <3>2. CASE list[r].command = c
      <4>1. list[s].command = c
        BY <2>12, <3>1, <3>2
      <4>2. r = s
        BY <1>1, <2>3, <3>2, <4>1 DEF Single
      <4> QED
        BY <2>5, <2>7, <2>8, <4>2
    <3>3. CASE list[r].command # c
      <4>1. cause[list[r].command] \cap {"shadowed", "again"} = {}
        BY <2>10, <2>12, <3>1
      <4>2. PICK d \in Channels : list[r].num[d] = Acked
        BY <1>1, <3>1, <3>3, <4>1 DEF Marked, MarkedOf, AckedItem
      <4> QED
        BY <2>11, <4>2
    <3> QED
      BY <3>2, <3>3
  <2> QED
    BY <1>4, <2>13, <2>14, <2>15, <2>16, <2>17 DEF IInv
<1> QED
  BY <1>5, <1>6

\* A channel repeats a command in which it has a part, that nobody acknowledged, and
\* not more often than it may.
LEMMA RepeatsIs ==
    ASSUME Types, NEW ch \in Channels, NEW s \in Used, Repeats(ch, s)
    PROVE  /\ ~AckedItem(s)
           /\ list[s].num[ch] # Off
           /\ list[s].num[ch] \in 0..Retries - 1
<1>1. list[s].num \in [Channels -> -2..Retries] /\ Retries \in Nat
  BY ItemIs, SenderAssumption
<1>2. ~AckedItem(s) /\ Due(s) /\ ~Drops(ch, s) /\ (Behind(ch, s) \/ First(ch, s))
  BY DEF Repeats
<1>3. list[s].num[ch] # Acked
  BY <1>2 DEF AckedItem
<1>4. CASE Behind(ch, s)
  BY <1>1, <1>2, <1>3, <1>4 DEF Behind, Off, Acked
<1>5. CASE First(ch, s)
  <2>1. ~(list[s].num[ch] + 1 > Retries)
    BY <1>2, <1>5 DEF Drops
  <2>2. list[s].num[ch] # Off
    BY <1>5 DEF First
  <2>3. list[s].num[ch] \in -2..Retries
    BY <1>1
  <2> QED
    BY <1>1, <1>2, <1>3, <2>1, <2>2, <2>3 DEF Off, Acked
<1> QED
  BY <1>2, <1>4, <1>5

LEMMA CheckIs ==
    ASSUME Types, NEW ch \in Channels, CheckTimeout(ch)
    PROVE  /\ list' \in [1..Slots -> {Free} \cup Item]
           /\ \A r \in Used' :
                /\ r \in Used /\ ~Drops(ch, r)
                /\ list'[r].command = list[r].command
                /\ ~Repeats(ch, r) => list'[r] = list[r]
                /\ \A d \in Channels : list'[r].num[d] = Off <=> list[r].num[d] = Off
<1> DEFINE next(s) ==
             IF Drops(ch, s) THEN Free
             ELSE IF Repeats(ch, s)
             THEN [list[s] EXCEPT !.num[ch] = @ + 1, !.waiting = ~Behind(ch, s)]
             ELSE list[s]
<1>1. list' = [s \in 1..Slots |-> next(s)]
  BY DEF CheckTimeout
<1>2. ASSUME NEW s \in Used, ~Drops(ch, s), Repeats(ch, s)
      PROVE  /\ next(s) \in Item
             /\ next(s).command = list[s].command
             /\ \A d \in Channels : next(s).num[d] = Off <=> list[s].num[d] = Off
  <2>1. /\ list[s] \in Item /\ list[s].num \in [Channels -> -2..Retries] /\ Retries \in Nat
        /\ list[s].num[ch] # Off /\ list[s].num[ch] \in 0..Retries - 1
    BY <1>2, ItemIs, RepeatsIs, SenderAssumption
  <2> DEFINE num == [list[s].num EXCEPT ![ch] = list[s].num[ch] + 1]
             waiting == ~Behind(ch, s)
             one == [list[s] EXCEPT !.num = num]
             two == [one EXCEPT !.waiting = waiting]
  <2>2. /\ num \in [Channels -> -2..Retries]
        /\ \A d \in Channels : num[d] = Off <=> list[s].num[d] = Off
    BY <2>1 DEF Off
  <2>3. next(s) = two
    BY <1>2, Zenon
  <2>4. waiting \in BOOLEAN
    BY DEF Behind
  <2> HIDE DEF num, waiting, next
  <2>5. one \in Item /\ one.command = list[s].command /\ one.num = num
    BY <2>1, <2>2 DEF Item
  <2> HIDE DEF one
  <2>6. two \in Item /\ two.command = list[s].command /\ two.num = num
    BY <2>4, <2>5 DEF Item
  <2> QED
    BY <2>2, <2>3, <2>6
<1>3. ASSUME NEW s \in 1..Slots, s \notin Used PROVE ~Drops(ch, s) /\ ~Repeats(ch, s)
  BY <1>3 DEF Used, Drops, Repeats, Due
<1>4. ASSUME NEW s \in 1..Slots PROVE next(s) \in {Free} \cup Item
  <2>1. CASE s \in Used /\ ~Drops(ch, s) /\ Repeats(ch, s)
    BY <1>2, <2>1
  <2>2. CASE Drops(ch, s)
    BY <2>2
  <2>3. CASE ~Drops(ch, s) /\ ~Repeats(ch, s)
    BY <2>3 DEF Types
  <2> QED
    BY <1>3, <2>1, <2>2, <2>3
<1>5. ASSUME NEW r \in Used'
      PROVE  /\ r \in Used /\ ~Drops(ch, r)
             /\ list'[r].command = list[r].command
             /\ ~Repeats(ch, r) => list'[r] = list[r]
             /\ \A d \in Channels : list'[r].num[d] = Off <=> list[r].num[d] = Off
  <2>1. r \in 1..Slots /\ next(r).used /\ list'[r] = next(r)
    BY <1>1, <1>5 DEF Used
  <2>2. ~Drops(ch, r)
    BY <2>1 DEF Free
  <2>3. CASE r \notin Used
    BY <1>3, <2>1, <2>2, <2>3 DEF Used
  <2>4. CASE r \in Used /\ Repeats(ch, r)
    BY <1>2, <2>1, <2>2, <2>4
  <2>5. CASE r \in Used /\ ~Repeats(ch, r)
    BY <2>1, <2>2, <2>5
  <2> QED
    BY <2>3, <2>4, <2>5
<1> HIDE DEF next
<1>6. list' \in [1..Slots -> {Free} \cup Item]
  BY <1>1, <1>4
<1> QED
  BY <1>5, <1>6

\* What the channel repeats is what has an item that it repeats.
LEMMA ResentIs ==
    ASSUME Types, NEW ch \in Channels, CheckTimeout(ch)
    PROVE  /\ sent' \in [Commands -> [Channels -> 0..Retries + 1]]
           /\ \A c \in Commands, d \in Channels :
                /\ sent[c][d] > 0 => sent'[c][d] > 0
                /\ \/ sent'[c][d] = sent[c][d]
                   \/ d = ch /\ \E s \in Used : list[s].command = c /\ Repeats(ch, s)
<1>1. sent' = [c \in Commands |-> [d \in Channels |->
                 IF d = ch /\ \E s \in Used : list[s].command = c /\ Repeats(ch, s)
                 THEN More(sent[c][d]) ELSE sent[c][d]]]
  BY DEF CheckTimeout
<1>2. \A c \in Commands, d \in Channels :
        More(sent[c][d]) \in 1..Retries + 1 /\ sent[c][d] \in 0..Retries + 1
  BY Grows
<1>3. Retries \in Nat
  BY SenderAssumption
<1>4. \A c \in Commands, d \in Channels :
        sent'[c][d] = IF d = ch /\ \E s \in Used : list[s].command = c /\ Repeats(ch, s)
                      THEN More(sent[c][d]) ELSE sent[c][d]
  BY <1>1
<1>5. \A c \in Commands, d \in Channels : sent'[c][d] \in 0..Retries + 1
  BY <1>2, <1>3, <1>4
<1>6. sent' \in [Commands -> [Channels -> 0..Retries + 1]]
  BY <1>1, <1>4, <1>5
<1>7. ASSUME NEW c \in Commands, NEW d \in Channels
      PROVE  /\ sent[c][d] > 0 => sent'[c][d] > 0
             /\ \/ sent'[c][d] = sent[c][d]
                \/ d = ch /\ \E s \in Used : list[s].command = c /\ Repeats(ch, s)
  <2>1. CASE d = ch /\ \E s \in Used : list[s].command = c /\ Repeats(ch, s)
    BY <1>2, <1>3, <1>4, <2>1
  <2>2. CASE ~(d = ch /\ \E s \in Used : list[s].command = c /\ Repeats(ch, s))
    BY <1>4, <2>2
  <2> QED
    BY <2>1, <2>2
<1> QED
  BY <1>6, <1>7

LEMMA CheckIInv ==
    ASSUME IInv, NEW ch \in Channels, CheckTimeout(ch)
    PROVE  IInv'
<1>1. Types /\ Single /\ Read /\ SentRead /\ Asked /\ HeardSent /\ Marked
  BY DEF IInv
<1>2. UNCHANGED <<last, heard, cause>>
  BY DEF CheckTimeout
<1>3. \A r \in Used' :
        /\ r \in Used /\ ~Drops(ch, r)
        /\ list'[r].command = list[r].command
        /\ ~Repeats(ch, r) => list'[r] = list[r]
        /\ \A d \in Channels : list'[r].num[d] = Off <=> list[r].num[d] = Off
  BY <1>1, CheckIs
<1>4. /\ sent' \in [Commands -> [Channels -> 0..Retries + 1]]
      /\ \A c \in Commands, d \in Channels :
           /\ sent[c][d] > 0 => sent'[c][d] > 0
           /\ \/ sent'[c][d] = sent[c][d]
              \/ d = ch /\ \E s \in Used : list[s].command = c /\ Repeats(ch, s)
  BY <1>1, ResentIs
<1>5. Types'
  BY <1>1, <1>2, <1>4, CheckIs DEF Types
<1>6. Single' /\ Read'
  BY <1>1, <1>2, <1>3 DEF Single, Read
<1>7. SentRead'
  <2>1. SUFFICES ASSUME NEW c \in Commands, NEW d \in Channels, sent'[c][d] > 0
                 PROVE  c <= last[d]
    BY <1>2 DEF SentRead
  <2>2. CASE sent'[c][d] = sent[c][d]
    BY <1>1, <2>1, <2>2 DEF SentRead
  <2>3. CASE d = ch /\ \E s \in Used : list[s].command = c /\ Repeats(ch, s)
    <3>1. PICK s \in Used : list[s].command = c /\ Repeats(ch, s)
      BY <2>3
    <3>2. list[s].num[ch] # Off
      BY <1>1, <3>1, RepeatsIs
    <3> QED
      BY <1>1, <2>3, <3>1, <3>2 DEF Read
  <2> QED
    BY <1>4, <2>2, <2>3
<1>8. HeardSent'
  BY <1>1, <1>2, <1>4 DEF HeardSent, Types
<1>9. Asked'
  <2>1. SUFFICES ASSUME NEW r \in Used', NEW d \in Channels,
                        "again" \notin cause[list[r].command], sent'[list[r].command][d] > 0
                 PROVE  list[r].num[d] # Off
    BY <1>2, <1>3 DEF Asked, AskedOf
  <2>2. list[r].command \in Commands /\ r \in Used
    BY <1>1, <1>3, ItemIs
  <2>3. CASE sent'[list[r].command][d] = sent[list[r].command][d]
    BY <1>1, <2>1, <2>2, <2>3 DEF Asked, AskedOf
  <2>4. CASE d = ch /\ \E s \in Used : list[s].command = list[r].command /\ Repeats(ch, s)
    <3>1. Repeats(ch, r)
      BY <1>1, <2>2, <2>4 DEF Single
    <3> QED
      BY <1>1, <2>2, <2>4, <3>1, RepeatsIs
  <2> QED
    BY <1>4, <2>2, <2>3, <2>4
<1>10. Marked'
  <2>1. SUFFICES ASSUME NEW r \in Used', list[r].command \in heard,
                        cause[list[r].command] \cap {"shadowed", "again"} = {}
                 PROVE  \E d \in Channels : list'[r].num[d] = Acked
    BY <1>2, <1>3 DEF Marked, MarkedOf, AckedItem
  <2>2. r \in Used /\ AckedItem(r)
    BY <1>1, <1>3, <2>1 DEF Marked, MarkedOf
  <2>3. ~Repeats(ch, r)
    BY <1>1, <2>2, RepeatsIs
  <2> QED
    BY <1>3, <2>2, <2>3 DEF AckedItem
<1> QED
  BY <1>5, <1>6, <1>7, <1>8, <1>9, <1>10 DEF IInv

LEMMA ElapseIInv ==
    ASSUME IInv, NEW s \in 1..Slots, Elapse(s)
    PROVE  IInv'
<1> DEFINE item == [list[s] EXCEPT !.waiting = FALSE]
<1>1. Types /\ Single /\ Read /\ SentRead /\ Asked /\ HeardSent /\ Marked
  BY DEF IInv
<1>2. /\ s \in Used /\ list' = [list EXCEPT ![s] = item]
      /\ UNCHANGED <<last, sent, heard, cause>>
  BY DEF Elapse, Used
<1>3. list[s] \in Item
  BY <1>1, <1>2, ItemIs
<1>4. /\ item \in Item /\ item.used = TRUE
      /\ item.command = list[s].command /\ item.num = list[s].num
  BY <1>3 DEF Item
<1> HIDE DEF item
<1>5. /\ list' \in [1..Slots -> {Free} \cup Item]
      /\ list'[s] = item /\ \A r \in 1..Slots : r # s => list'[r] = list[r]
  BY <1>1, <1>2, <1>4 DEF Types
<1>6. Used' = Used
  BY <1>2, <1>4, <1>5 DEF Used
<1>7. \A r \in Used : list'[r].command = list[r].command /\ list'[r].num = list[r].num
  BY <1>1, <1>4, <1>5, ItemIs
<1>8. Types'
  BY <1>1, <1>2, <1>5 DEF Types
<1>9. Single' /\ Read' /\ SentRead' /\ HeardSent'
  BY <1>1, <1>2, <1>6, <1>7 DEF Single, Read, SentRead, HeardSent
<1>10. Asked'
  BY <1>1, <1>2, <1>6, <1>7 DEF Asked, AskedOf
<1>11. Marked'
  BY <1>1, <1>2, <1>6, <1>7 DEF Marked, MarkedOf, AckedItem
<1> QED
  BY <1>8, <1>9, <1>10, <1>11 DEF IInv

LEMMA NextIInv ==
    ASSUME IInv, [Next]_vars
    PROVE  IInv'
<1>1. ASSUME NEW ch \in Channels, NEW c \in Commands, HandleVehicleCommand(ch, c) PROVE IInv'
  <2>1. CASE \E s \in Used : list[s].command = c /\ Activate(ch, s)
    BY <1>1, <2>1, ActivateIInv
  <2>2. CASE (\A s \in Used : list[s].command # c) /\ Put(ch, c)
    BY <1>1, <2>2, PutIInv
  <2> QED
    BY <1>1, <2>1, <2>2 DEF HandleVehicleCommand
<1>2. ASSUME NEW ch \in Channels, NEW c \in Commands, HandleCommandAck(ch, c) PROVE IInv'
  BY <1>2, AckIInv
<1>3. ASSUME NEW ch \in Channels, CheckTimeout(ch) PROVE IInv'
  BY <1>3, CheckIInv
<1>4. ASSUME NEW s \in 1..Slots, Elapse(s) PROVE IInv'
  BY <1>4, ElapseIInv
<1>5. CASE UNCHANGED <<list, order, last, acks, sent, heard, cause>>
  BY <1>5 DEF IInv, Types, Single, Read, SentRead, Asked, AskedOf, HeardSent, Marked, MarkedOf,
              AckedItem, Used
<1>6. ASSUME NEW ch \in Channels, Stop(ch) PROVE IInv'
  BY <1>5, <1>6 DEF Stop
<1>7. CASE UNCHANGED vars
  BY <1>5, <1>7 DEF vars
<1> QED
  BY <1>1, <1>2, <1>3, <1>4, <1>6, <1>7 DEF Next

\* The invariant holds of every behaviour of the senders.
THEOREM Invariance == Spec => []IInv
<1> QED
  BY InitIInv, NextIInv, PTL DEF Spec

\* A step sends an acknowledged command on no channel that has sent it.
LEMMA NotResent ==
    ASSUME IInv, [Next]_vars, NEW c \in heard, NEW ch \in Channels,
           sent[c][ch] > 0, cause[c] \cap {"shadowed", "again"} = {}
    PROVE  sent'[c][ch] = sent[c][ch]
<1>1. Types /\ Single /\ Read /\ SentRead /\ Asked /\ HeardSent /\ Marked /\ c \in Commands
  BY DEF IInv, Types
<1>2. ASSUME NEW d \in Channels, NEW e \in Commands, HandleVehicleCommand(d, e)
      PROVE  sent'[c][ch] = sent[c][ch]
  <2>1. /\ e > last[d] /\ sent' = [sent EXCEPT ![e][d] = More(@)]
    BY <1>2 DEF HandleVehicleCommand
  <2>2. ~(e = c /\ d = ch)
    <3>1. SUFFICES ASSUME e = c, d = ch PROVE FALSE
      OBVIOUS
    <3>2. c <= last[ch] /\ last[ch] \in 0..N /\ N \in Nat /\ c \in Nat
      BY <1>1, SenderAssumption DEF SentRead, Types, Commands
    <3>3. c > last[ch]
      BY <2>1, <3>1
    <3> QED
      BY <3>2, <3>3
  <2> QED
    BY <1>1, <1>2, <2>1, <2>2, SentOnce
<1>3. ASSUME NEW d \in Channels, CheckTimeout(d) PROVE sent'[c][ch] = sent[c][ch]
  <2>1. ASSUME NEW s \in Used, list[s].command = c PROVE ~Repeats(d, s)
    <3>1. AckedItem(s)
      BY <1>1, <2>1 DEF Marked, MarkedOf
    <3> QED
      BY <1>1, <3>1, RepeatsIs
  <2> QED
    BY <1>1, <1>3, <2>1, ResentIs
<1>4. CASE UNCHANGED sent
  BY <1>4
<1> QED
  BY <1>2, <1>3, <1>4 DEF Next, HandleCommandAck, Elapse, Stop, vars

\* AckedNotResent of every number of channels, slots, retries and commands: a command that
\* was acknowledged is not sent again on a channel, unless an equal command took the
\* acknowledgement or a late channel put it into the list again.
THEOREM AckedQuiet == Spec => AckedNotResent
<1>1. IInv /\ [Next]_vars =>
        [\A c \in heard : \A ch \in Channels :
           sent[c][ch] > 0 /\ cause[c] \cap {"shadowed", "again"} = {}
           => sent'[c][ch] = sent[c][ch]]_vars
  BY NotResent
<1> QED
  BY <1>1, Invariance, PTL DEF Spec, AckedNotResent
-----------------------------------------------------------------------------
(* The order of the list                                                   *)

\* The slots in a sequence, and that each is in it once
Items(o) == {o[i] : i \in 1..Len(o)}
Distinct(o) == \A i, j \in 1..Len(o) : o[i] = o[j] => i = j

\* One turn of Without, where f holds what was left before.
Left(S, f, n) ==
    IF n = 0 THEN <<>>
    ELSE IF order[n] \in S THEN f[n - 1]
    ELSE Append(f[n - 1], order[n])

\* The function that Without computes exists: it is found slot by slot.
LEMMA WithoutExists ==
    ASSUME order \in Seq(1..Slots), NEW S
    PROVE  \E f : /\ \A n \in 0..Len(order) : f[n] = Left(S, f, n)
                  /\ Without(S) = f[Len(order)]
<1> DEFINE D == 0..Len(order)
           Good(f, n) == /\ f \in [D -> Seq(1..Slots)]
                         /\ \A k \in D : k <= n => f[k] = Left(S, f, k)
           Bad == {n \in Nat : ~ \E f : Good(f, n)}
<1>1. Len(order) \in Nat /\ \A k \in 1..Len(order) : order[k] \in 1..Slots
  BY LenProperties, ElementOfSeq
<1>2. ASSUME NEW f \in [D -> Seq(1..Slots)], NEW k \in D PROVE Left(S, f, k) \in Seq(1..Slots)
  <2>1. CASE k = 0
    BY <2>1 DEF Left
  <2>2. CASE k # 0
    <3>1. f[k - 1] \in Seq(1..Slots) /\ order[k] \in 1..Slots
      BY <1>1, <2>2
    <3>2. Append(f[k - 1], order[k]) \in Seq(1..Slots)
      BY <3>1, AppendProperties
    <3> QED
      BY <2>2, <3>1, <3>2 DEF Left
  <2> QED
    BY <2>1, <2>2
<1>3. \E f : Good(f, 0)
  <2> DEFINE f == [k \in D |-> <<>>]
  <2>1. f \in [D -> Seq(1..Slots)] /\ \A k \in D : f[k] = <<>>
    OBVIOUS
  <2> HIDE DEF f
  <2> QED
    BY <1>1, <2>1 DEF Left
<1>4. ASSUME NEW n \in Nat, NEW f, Good(f, n) PROVE \E g : Good(g, n + 1)
  <2> DEFINE g == [k \in D |-> Left(S, f, k)]
  <2>1. g \in [D -> Seq(1..Slots)] /\ \A k \in D : g[k] = Left(S, f, k)
    BY <1>2, <1>4
  <2> HIDE DEF g
  <2>2. \A k \in D : k <= n => g[k] = f[k]
    BY <1>4, <2>1
  <2>3. ASSUME NEW k \in D, k <= n + 1 PROVE Left(S, g, k) = Left(S, f, k)
    <3>1. CASE k = 0
      BY <3>1 DEF Left
    <3>2. CASE k # 0
      <4>1. g[k - 1] = f[k - 1]
        BY <1>1, <2>2, <2>3, <3>2
      <4> QED
        BY <4>1 DEF Left
    <3> QED
      BY <3>1, <3>2
  <2> QED
    BY <2>1, <2>3
<1>5. Bad = {}
  <2>1. SUFFICES ASSUME Bad # {} PROVE FALSE
    OBVIOUS
  <2>2. PICK n \in Bad : \A m \in Bad : n <= m
    <3>1. Bad \in SUBSET Nat
      OBVIOUS
    <3> HIDE DEF Bad
    <3> QED
      BY <2>1, <3>1, LeastNat
  <2>3. n \in Nat /\ n # 0
    BY <1>3
  <2>4. n - 1 \in Nat /\ n - 1 \notin Bad /\ (n - 1) + 1 = n
    <3> HIDE DEF Bad
    <3> QED
      BY <2>2, <2>3
  <2>5. PICK f : Good(f, n - 1)
    BY <2>4
  <2>6. \E g : Good(g, (n - 1) + 1)
    <3> HIDE DEF Good
    <3> QED
      BY <1>4, <2>4, <2>5
  <2> QED
    BY <2>2, <2>4, <2>6
<1>6. PICK f : Good(f, Len(order))
  BY <1>1, <1>5
<1> DEFINE Is(h) == h = [k \in D |-> Left(S, h, k)]
<1>7. Is(f)
  BY <1>1, <1>6
<1>8. Without(S) = (CHOOSE h : Is(h))[Len(order)]
  BY DEF Without, Left
<1>9. PICK h : Is(h) /\ Without(S) = h[Len(order)]
  <2> HIDE DEF Is
  <2> QED
    BY <1>7, <1>8, Zenon
<1> QED
  BY <1>9

\* The sequence with one slot more
LEMMA AppendIs ==
    ASSUME NEW T, NEW o \in Seq(T), Distinct(o), NEW e \in T, e \notin Items(o)
    PROVE  /\ Append(o, e) \in Seq(T)
           /\ Distinct(Append(o, e))
           /\ Items(Append(o, e)) = Items(o) \cup {e}
<1>1. PICK a : a = Append(o, e)
  OBVIOUS
<1>2. /\ a \in Seq(T) /\ Len(a) = Len(o) + 1 /\ Len(o) \in Nat
      /\ \A i \in 1..Len(o) : a[i] = o[i]
      /\ a[Len(o) + 1] = e
  BY <1>1, AppendProperties
<1>3. \A i \in 1..Len(a) : i \in 1..Len(o) \/ i = Len(o) + 1
  BY <1>2
<1>4. Distinct(a)
  BY <1>2, <1>3 DEF Distinct, Items
<1>5. Items(a) = Items(o) \cup {e}
  BY <1>2, <1>3 DEF Items
<1> QED
  BY <1>1, <1>2, <1>4, <1>5

\* Without leaves the slots in their order, and no other slots.
LEMMA WithoutIs ==
    ASSUME order \in Seq(1..Slots), Distinct(order), NEW S
    PROVE  /\ Without(S) \in Seq(1..Slots)
           /\ Distinct(Without(S))
           /\ Items(Without(S)) = Items(order) \ S
<1>1. PICK f : /\ \A n \in 0..Len(order) : f[n] = Left(S, f, n)
               /\ Without(S) = f[Len(order)]
  BY WithoutExists
<1> DEFINE Earlier(n) == {order[i] : i \in 1..n}
           Good(n) == /\ f[n] \in Seq(1..Slots)
                      /\ Distinct(f[n])
                      /\ Items(f[n]) = Earlier(n) \ S
           Bad == {n \in 0..Len(order) : ~Good(n)}
<1>2. Len(order) \in Nat /\ \A k \in 1..Len(order) : order[k] \in 1..Slots
  BY LenProperties, ElementOfSeq
<1>3. Good(0)
  <2>1. f[0] = <<>>
    BY <1>1, <1>2 DEF Left
  <2> QED
    BY <2>1 DEF Distinct, Items
<1>4. ASSUME NEW n \in 1..Len(order), Good(n - 1) PROVE Good(n)
  <2>1. f[n] = IF order[n] \in S THEN f[n - 1] ELSE Append(f[n - 1], order[n])
    BY <1>1, <1>2 DEF Left
  <2>2. Earlier(n) = Earlier(n - 1) \cup {order[n]}
    BY <1>2
  <2>3. order[n] \notin Earlier(n - 1)
    BY <1>2 DEF Distinct
  <2> HIDE DEF Earlier
  <2>4. CASE order[n] \in S
    BY <1>4, <2>1, <2>2, <2>4
  <2>5. CASE order[n] \notin S
    <3>1. order[n] \notin Items(f[n - 1])
      BY <1>4, <2>3
    <3>2. /\ Append(f[n - 1], order[n]) \in Seq(1..Slots)
          /\ Distinct(Append(f[n - 1], order[n]))
          /\ Items(Append(f[n - 1], order[n])) = Items(f[n - 1]) \cup {order[n]}
      BY <1>2, <1>4, <3>1, AppendIs
    <3> QED
      BY <1>4, <2>1, <2>2, <2>5, <3>2
  <2> QED
    BY <2>4, <2>5
<1>5. Bad = {}
  <2>1. SUFFICES ASSUME Bad # {} PROVE FALSE
    OBVIOUS
  <2>2. PICK n \in Bad : \A m \in Bad : n <= m
    <3>1. Bad \in SUBSET Nat
      BY <1>2
    <3> HIDE DEF Bad
    <3> QED
      BY <2>1, <3>1, LeastNat
  <2>3. n \in 1..Len(order) /\ n - 1 \in 0..Len(order) /\ ~(n <= n - 1)
    <3>1. n # 0 /\ n \in 0..Len(order)
      BY <1>3
    <3> QED
      BY <1>2, <3>1
  <2>4. Good(n - 1)
    <3>1. n - 1 \notin Bad
      <4> HIDE DEF Bad
      <4> QED
        BY <2>2, <2>3
    <3> HIDE DEF Good
    <3> QED
      BY <2>3, <3>1
  <2>5. Good(n)
    <3> HIDE DEF Good
    <3> QED
      BY <1>4, <2>3, <2>4
  <2> HIDE DEF Good
  <2> QED
    BY <2>5
<1>6. Good(Len(order))
  <2> HIDE DEF Good
  <2> QED
    BY <1>2, <1>5
<1> QED
  BY <1>1, <1>6 DEF Items

\* A sequence without repetitions is as long as it has items.
LEMMA DistinctLength ==
    ASSUME NEW T, NEW o \in Seq(T), Distinct(o)
    PROVE  Len(o) = Cardinality(Items(o))
<1>1. Len(o) \in Nat /\ o \in [1..Len(o) -> T]
  OBVIOUS
<1>2. o \in Bijection(1..Len(o), Items(o))
  BY <1>1 DEF Bijection, Injection, Surjection, Distinct, Items, IsInjective
<1>3. IsFiniteSet(1..Len(o)) /\ Cardinality(1..Len(o)) = Len(o)
  BY <1>1, FS_Interval
<1>4. ExistsBijection(1..Len(o), Items(o))
  BY <1>2 DEF ExistsBijection
<1> QED
  BY <1>3, <1>4, FS_Bijection

\* The order holds the slots in use, each once.
InOrder == order \in Seq(1..Slots) /\ Distinct(order) /\ Items(order) = Used
Bounds == stopped \subseteq Channels /\ acks \in 0..MaxAcks

LEMMA InitInOrder == Init => InOrder /\ Bounds
<1> SUFFICES ASSUME Init PROVE InOrder /\ Bounds
  OBVIOUS
<1>1. Used = {} /\ order = <<>> /\ acks = 0 /\ stopped = {}
  BY DEF Init, Used, Free
<1>2. MaxAcks \in Nat
  BY SenderAssumption
<1> QED
  BY <1>1, <1>2 DEF InOrder, Bounds, Distinct, Items

\* What is changed of an item leaves it in use.
LEMMA UsedStays ==
    ASSUME Types, NEW s \in Used, NEW item, item.used = TRUE, list' = [list EXCEPT ![s] = item]
    PROVE  Used' = Used
<1>1. s \in 1..Slots /\ list[s].used
  BY DEF Used
<1>2. list'[s] = item /\ \A r \in 1..Slots : r # s => list'[r] = list[r]
  BY <1>1 DEF Types
<1> QED
  BY <1>1, <1>2 DEF Used

LEMMA MarkUsed ==
    ASSUME Types, NEW s \in Used, NEW ch \in Channels, NEW n, list' = [list EXCEPT ![s].num[ch] = n]
    PROVE  Used' = Used
<1>1. list[s] \in Item /\ list[s].used = TRUE
  BY ItemIs
<1>2. PICK num : num = [list[s].num EXCEPT ![ch] = n]
  OBVIOUS
<1>3. PICK item : item = [list[s] EXCEPT !.num = num]
  OBVIOUS
<1>4. item.used = TRUE
  BY <1>1, <1>3 DEF Item
<1>5. list' = [list EXCEPT ![s] = item]
  BY <1>2, <1>3, Zenon
<1> QED
  BY <1>4, <1>5, UsedStays

\* A new item takes a slot of the list.
LEMMA PlaceIs ==
    ASSUME InOrder
    PROVE  Place \in 1..Slots
<1>1. Slots \in Nat \ {0} /\ Used \subseteq 1..Slots
  BY SenderAssumption DEF Used
<1>2. CASE Used # 1..Slots
  <2>1. (1..Slots) \ Used \in SUBSET (1..Slots) /\ (1..Slots) \ Used # {}
    BY <1>1, <1>2
  <2>2. \E k \in (1..Slots) \ Used : \A m \in (1..Slots) \ Used : k <= m
    BY <1>1, <2>1, LeastOf
  <2>3. Min((1..Slots) \ Used) \in (1..Slots) \ Used
    BY <2>2 DEF Min
  <2> QED
    BY <1>2, <2>3 DEF Place
<1>3. CASE Used = 1..Slots
  <2>1. 1 \in Items(order)
    BY <1>1, <1>3 DEF InOrder
  <2>2. order # <<>>
    BY <2>1 DEF Items
  <2>3. Head(order) \in 1..Slots
    BY <2>2, HeadTailProperties DEF InOrder
  <2> QED
    BY <1>3, <2>3 DEF Place
<1> QED
  BY <1>2, <1>3

LEMMA PutInOrder ==
    ASSUME IInv, InOrder, NEW ch \in Channels, NEW c \in Commands, Put(ch, c)
    PROVE  InOrder'
<1>1. PICK s \in 1..Slots : s = Place
  BY PlaceIs
<1>2. PICK item : /\ item.used = TRUE
                  /\ list' = [list EXCEPT ![s] = item]
  <2>1. [used |-> TRUE, command |-> c, waiting |-> TRUE,
         num |-> [d \in Channels |-> IF d = ch THEN 0 ELSE Off]].used = TRUE
    OBVIOUS
  <2> QED
    BY <1>1, <2>1 DEF Put
<1>3. Used' = Used \cup {s}
  <2>1. list'[s] = item /\ \A r \in 1..Slots : r # s => list'[r] = list[r]
    BY <1>2 DEF IInv, Types
  <2> QED
    BY <1>2, <2>1 DEF Used
<1>4. PICK o : o = Without({s})
  OBVIOUS
<1>5. order' = Append(o, s)
  BY <1>1, <1>4 DEF Put
<1>6. o \in Seq(1..Slots) /\ Distinct(o) /\ Items(o) = Items(order) \ {s}
  BY <1>4, WithoutIs DEF InOrder
<1>7. s \in 1..Slots /\ s \notin Items(o)
  BY <1>6
<1>8. /\ Append(o, s) \in Seq(1..Slots) /\ Distinct(Append(o, s))
      /\ Items(Append(o, s)) = Items(o) \cup {s}
  <2>1. PICK T : T = 1..Slots
    OBVIOUS
  <2>2. o \in Seq(T) /\ s \in T
    BY <1>6, <1>7, <2>1
  <2>3. /\ Append(o, s) \in Seq(T) /\ Distinct(Append(o, s))
        /\ Items(Append(o, s)) = Items(o) \cup {s}
    BY <1>6, <1>7, <2>2, AppendIs
  <2> QED
    BY <2>1, <2>3
<1>9. Items(Append(o, s)) = Used \cup {s}
  BY <1>6, <1>8 DEF InOrder
<1> QED
  BY <1>3, <1>5, <1>8, <1>9 DEF InOrder

LEMMA CheckInOrder ==
    ASSUME IInv, InOrder, NEW ch \in Channels, CheckTimeout(ch)
    PROVE  InOrder'
<1> DEFINE dropped == {s \in Used : Drops(ch, s)}
<1>1. order' = Without(dropped)
  BY DEF CheckTimeout
<1>2. Types /\ (\A r \in Used' : r \in Used /\ ~Drops(ch, r))
  BY CheckIs DEF IInv
<1>3. ASSUME NEW s \in Used, ~Drops(ch, s) PROVE s \in Used'
  <2>1. s \in 1..Slots /\ list[s] \in Item /\ list[s].used = TRUE
    BY <1>2, ItemIs
  <2>2. list'[s] = IF Repeats(ch, s)
                   THEN [list[s] EXCEPT !.num[ch] = @ + 1, !.waiting = ~Behind(ch, s)]
                   ELSE list[s]
    BY <1>3, <2>1 DEF CheckTimeout
  <2>3. PICK num : num = [list[s].num EXCEPT ![ch] = list[s].num[ch] + 1]
    OBVIOUS
  <2>4. PICK one : one = [list[s] EXCEPT !.num = num]
    OBVIOUS
  <2>5. PICK waiting : waiting = (~Behind(ch, s))
    OBVIOUS
  <2>6. [list[s] EXCEPT !.num[ch] = @ + 1, !.waiting = ~Behind(ch, s)] = [one EXCEPT !.waiting = waiting]
    BY <2>3, <2>4, <2>5, Zenon
  <2>7. one.used = TRUE /\ DOMAIN one = {"used", "command", "waiting", "num"}
    BY <2>1, <2>4 DEF Item
  <2>8. [one EXCEPT !.waiting = waiting].used = TRUE
    BY <2>7
  <2>9. list'[s].used
    BY <2>1, <2>2, <2>6, <2>8
  <2> QED
    BY <2>1, <2>9 DEF Used
<1>4. Used' = Used \ dropped
  BY <1>2, <1>3
<1> HIDE DEF dropped
<1>5. /\ Without(dropped) \in Seq(1..Slots) /\ Distinct(Without(dropped))
      /\ Items(Without(dropped)) = Used \ dropped
  BY WithoutIs DEF InOrder
<1> QED
  BY <1>1, <1>4, <1>5 DEF InOrder

LEMMA NextInOrder ==
    ASSUME IInv, InOrder, Bounds, [Next]_vars
    PROVE  (InOrder /\ Bounds)'
<1>0. Types
  BY DEF IInv
<1>1. ASSUME NEW ch \in Channels, NEW c \in Commands, HandleVehicleCommand(ch, c)
      PROVE  (InOrder /\ Bounds)'
  <2>1. Bounds'
    BY <1>1 DEF HandleVehicleCommand, Bounds
  <2>2. ASSUME NEW s \in Used, Activate(ch, s) PROVE InOrder'
    <3>1. list' = [list EXCEPT ![s].num[ch] = 0] /\ order' = order
      BY <2>2 DEF Activate
    <3>2. Used' = Used
      BY <1>0, <3>1, MarkUsed
    <3> QED
      BY <3>1, <3>2 DEF InOrder
  <2>3. ASSUME Put(ch, c) PROVE InOrder'
    BY <2>3, PutInOrder
  <2> QED
    BY <1>1, <2>1, <2>2, <2>3 DEF HandleVehicleCommand
<1>2. ASSUME NEW ch \in Channels, NEW c \in Commands, HandleCommandAck(ch, c)
      PROVE  (InOrder /\ Bounds)'
  <2>1. order' = order /\ Bounds'
    BY <1>2, SenderAssumption DEF HandleCommandAck, Bounds
  <2>2. Used' = Used
    <3>1. CASE Matching(ch, c) = {}
      BY <1>2, <3>1 DEF HandleCommandAck, Used
    <3>2. CASE Matching(ch, c) # {}
      <4>1. PICK s \in Used : s = Min(Matching(ch, c))
        BY <1>0, <3>2, MatchingLeast DEF Matching
      <4>2. list' = [list EXCEPT ![s].num[ch] = Acked]
        BY <1>2, <3>2, <4>1 DEF HandleCommandAck
      <4> QED
        BY <1>0, <4>2, MarkUsed
    <3> QED
      BY <3>1, <3>2
  <2> QED
    BY <2>1, <2>2 DEF InOrder
<1>3. ASSUME NEW ch \in Channels, CheckTimeout(ch) PROVE (InOrder /\ Bounds)'
  BY <1>3, CheckInOrder DEF CheckTimeout, Bounds
<1>4. ASSUME NEW s \in 1..Slots, Elapse(s) PROVE (InOrder /\ Bounds)'
  <2>1. s \in Used /\ list' = [list EXCEPT ![s].waiting = FALSE] /\ UNCHANGED <<order, acks, stopped>>
    BY <1>4 DEF Elapse, Used
  <2>2. PICK item : item = [list[s] EXCEPT !.waiting = FALSE]
    OBVIOUS
  <2>3. item.used = TRUE
    BY <1>0, <2>1, <2>2, ItemIs DEF Item
  <2>4. list' = [list EXCEPT ![s] = item]
    BY <2>1, <2>2, Zenon
  <2>5. Used' = Used
    BY <1>0, <2>1, <2>3, <2>4, UsedStays
  <2> QED
    BY <2>1, <2>5 DEF InOrder, Bounds
<1>5. ASSUME NEW ch \in Channels, Stop(ch) PROVE (InOrder /\ Bounds)'
  BY <1>5 DEF Stop, InOrder, Bounds, Used
<1>6. CASE UNCHANGED vars
  BY <1>6 DEF vars, InOrder, Bounds, Used
<1> QED
  BY <1>1, <1>2, <1>3, <1>4, <1>5, <1>6 DEF Next

\* Every variable of the senders keeps its type: the order holds the slots in use, each
\* once, so that a new item never takes a slot outside the list.
THEOREM TypeCorrect == Spec => []TypeOK
<1>1. ASSUME IInv, InOrder, Bounds PROVE TypeOK
  <2>1. ToSet(order) = Items(order) /\ Len(order) = Cardinality(Items(order))
    BY <1>1, DistinctLength, LenProperties DEF InOrder, ToSet, Items
  <2> QED
    BY <1>1, <2>1 DEF TypeOK, IInv, Types, InOrder, Bounds, Item, Causes
<1>2. Spec => [](InOrder /\ Bounds)
  BY Invariance, InitInOrder, NextInOrder, PTL DEF Spec
<1> QED
  BY <1>1, <1>2, Invariance, PTL
=============================================================================
