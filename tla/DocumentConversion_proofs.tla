---------------------- MODULE DocumentConversion_proofs ----------------------
(***************************************************************************)
(* Proofs about DocumentConversion, for any calls, names, sizes and        *)
(* routes: the types, that calls of different names never get each other's *)
(* documents, and that what stays on the shared volume is explained.       *)
(***************************************************************************)
EXTENDS DocumentConversion, SequenceTheorems, TLAPS

-----------------------------------------------------------------------------
(* ---- what the servers work on ---- *)

Docs == {NoDoc} \cup [of : Conversions, whole : BOOLEAN]
Clients == [route : {"none"} \cup Routes, stage : Stages, got : Docs]

\* The types, as the steps keep them.
ShapeInv ==
    /\ dcRemote \in BOOLEAN
    /\ dcClient \in [Conversions -> Clients]
    /\ dcShared \in [SharedNames -> Docs]
    /\ dcQueue \in Seq(Conversions) /\ dcUploads \in Seq(Conversions)
    /\ dcOda \in [for : Conversions \cup {NoDoc}, stage : {"idle", "running", "exited"},
                  holds : Docs]
    /\ dcPdf \in [for : Conversions \cup {NoDoc}, docx : {"none", "part", "whole"},
                  alive : BOOLEAN, late : BOOLEAN, next : {"drive", "find", "poll"}]
    /\ dcTemp \subseteq Conversions /\ dcBroken \subseteq Conversions

Sent(c) == dcClient[c].stage \notin {"idle", "ready"}
Queued(c) == \E i \in DOMAIN dcQueue : dcQueue[i] = c
AtOda(c) == dcOda.stage # "idle" /\ dcOda.for = c
Uploaded(c) == \/ \E i \in DOMAIN dcUploads : dcUploads[i] = c
               \/ ~LockFree /\ dcPdf.for = c

\* The ODA server has each request once, and its client waits or gave up.
QueueInv ==
    /\ \A i, j \in DOMAIN dcQueue : dcQueue[i] = dcQueue[j] => i = j
    /\ dcOda.stage # "idle" => /\ dcOda.for \in Conversions /\ ~Queued(dcOda.for)
                               /\ dcOda.holds \in [of : Conversions, whole : BOOLEAN]
    /\ \A c \in Conversions : Queued(c) \/ AtOda(c) =>
          /\ dcRemote /\ dcClient[c].route \in CadRoutes /\ Sent(c)
          /\ dcClient[c].stage = "waiting" \/ c \in dcBroken

\* First PDF has only what was sent to it.
UploadsInv == \A c \in Conversions : Uploaded(c) => dcClient[c].route = "pdf" /\ Sent(c)

ServersInv == ShapeInv /\ QueueInv /\ UploadsInv

\* The ODA server is done with the call, or never gets to it.
Settled(c) == Sent(c) /\ ~Queued(c) /\ ~AtOda(c)

\* Who outlived a timeout works for a call that broke and that the server is done
\* with.
OrphansInv ==
    /\ dcOrphans \subseteq [for : Conversions, holds : [of : Conversions, whole : BOOLEAN]]
    /\ \A o \in dcOrphans : Settled(o.for) /\ o.for \in dcBroken

\* A call's record after a step that moves it.
Moved(c, route, stage, got) ==
    dcClient' = [dcClient EXCEPT ![c] = [route |-> route, stage |-> stage, got |-> got]]

\* The ways in which the actions write a call's next record.
LEMMA ClientRecords ==
    ASSUME ShapeInv, NEW c \in Conversions
    PROVE  /\ dcClient[c] \in Clients
           /\ dcClient[c] = [route |-> dcClient[c].route, stage |-> dcClient[c].stage,
                             got |-> dcClient[c].got]
           /\ \A s : dcClient' = [dcClient EXCEPT ![c].stage = s]
                        => Moved(c, dcClient[c].route, s, dcClient[c].got)
           /\ \A s, g : dcClient' = [dcClient EXCEPT ![c].stage = s, ![c].got = g]
                        => Moved(c, dcClient[c].route, s, g)
           /\ \A t, s : dcClient' = [dcClient EXCEPT ![c].route = t, ![c].stage = s]
                        => Moved(c, t, s, dcClient[c].got)
<1>1. dcClient[c] \in Clients /\ DOMAIN dcClient = Conversions
  BY DEF ShapeInv
<1>2. dcClient[c] = [route |-> dcClient[c].route, stage |-> dcClient[c].stage,
                     got |-> dcClient[c].got]
  BY <1>1 DEF Clients
<1>3. ASSUME NEW s, dcClient' = [dcClient EXCEPT ![c].stage = s]
      PROVE  Moved(c, dcClient[c].route, s, dcClient[c].got)
  <2>1. [dcClient[c] EXCEPT !.stage = s] = [route |-> dcClient[c].route, stage |-> s,
                                            got |-> dcClient[c].got]
    BY <1>2
  <2> QED
    BY <1>1, <1>3, <2>1 DEF Moved
<1>4. ASSUME NEW s, NEW g, dcClient' = [dcClient EXCEPT ![c].stage = s, ![c].got = g]
      PROVE  Moved(c, dcClient[c].route, s, g)
  <2> DEFINE f == [dcClient EXCEPT ![c].stage = s]
             k == [route |-> dcClient[c].route, stage |-> s, got |-> dcClient[c].got]
             l == [route |-> dcClient[c].route, stage |-> s, got |-> g]
  <2>1. [dcClient[c] EXCEPT !.stage = s] = k /\ [k EXCEPT !.got = g] = l
    BY <1>2
  <2>2. f = [dcClient EXCEPT ![c] = k]
    BY <1>1, <2>1
  <2>3. dcClient' = [f EXCEPT ![c].got = g]
    BY <1>4
  <2> HIDE DEF f, k, l
  <2>4. DOMAIN f = Conversions /\ f[c] = k /\ \A d \in Conversions : d # c => f[d] = dcClient[d]
    BY <1>1, <2>2
  <2>5. dcClient' = [f EXCEPT ![c] = l]
    BY <2>1, <2>3, <2>4
  <2>6. [f EXCEPT ![c] = l] = [dcClient EXCEPT ![c] = l]
    BY <1>1, <2>2
  <2> QED
    BY <2>5, <2>6 DEF Moved, l
<1>5. ASSUME NEW t, NEW s, dcClient' = [dcClient EXCEPT ![c].route = t, ![c].stage = s]
      PROVE  Moved(c, t, s, dcClient[c].got)
  <2> DEFINE f == [dcClient EXCEPT ![c].route = t]
             k == [route |-> t, stage |-> dcClient[c].stage, got |-> dcClient[c].got]
             l == [route |-> t, stage |-> s, got |-> dcClient[c].got]
  <2>1. [dcClient[c] EXCEPT !.route = t] = k /\ [k EXCEPT !.stage = s] = l
    BY <1>2
  <2>2. f = [dcClient EXCEPT ![c] = k]
    BY <1>1, <2>1
  <2>3. dcClient' = [f EXCEPT ![c].stage = s]
    BY <1>5
  <2> HIDE DEF f, k, l
  <2>4. DOMAIN f = Conversions /\ f[c] = k /\ \A d \in Conversions : d # c => f[d] = dcClient[d]
    BY <1>1, <2>2
  <2>5. dcClient' = [f EXCEPT ![c] = l]
    BY <2>1, <2>3, <2>4
  <2>6. [f EXCEPT ![c] = l] = [dcClient EXCEPT ![c] = l]
    BY <1>1, <2>2
  <2> QED
    BY <2>5, <2>6 DEF Moved, l
<1> QED
  BY <1>1, <1>2, <1>3, <1>4, <1>5

\* What a call that moves, and every other call, is afterwards.
LEMMA MovedTo ==
    ASSUME ShapeInv, NEW c \in Conversions, NEW route \in {"none"} \cup Routes,
           NEW stage \in Stages, NEW got \in Docs, Moved(c, route, stage, got)
    PROVE  /\ dcClient' \in [Conversions -> Clients]
           /\ dcClient'[c].route = route /\ dcClient'[c].stage = stage /\ dcClient'[c].got = got
           /\ \A d \in Conversions : d # c => dcClient'[d] = dcClient[d]
<1>1. [route |-> route, stage |-> stage, got |-> got] \in Clients
  BY DEF Clients
<1> QED
  BY <1>1 DEF ShapeInv, Moved

\* The answers move the call they are for, or nobody.
LEMMA AnswersMove ==
    ASSUME ShapeInv, NEW c \in Conversions, NEW ok \in BOOLEAN, Answered(c, ok)
    PROVE  \E s \in Stages :
              /\ Moved(c, dcClient[c].route, s, dcClient[c].got)
              /\ dcClient[c].stage # "waiting" => s = dcClient[c].stage
              /\ dcClient[c].stage = "waiting" => s = IF ok THEN "answered" ELSE "cleaning"
<1> DEFINE s == IF dcClient[c].stage # "waiting" THEN dcClient[c].stage
                ELSE IF ok THEN "answered" ELSE "cleaning"
<1>1. dcClient[c].stage \in Stages
  BY ClientRecords DEF Clients
<1>2. dcClient' = [dcClient EXCEPT ![c].stage = s]
  BY DEF Answered
<1>3. s \in Stages
  BY <1>1 DEF Stages
<1> QED
  BY <1>2, <1>3, ClientRecords

LEMMA GotsMove ==
    ASSUME ShapeInv, NEW c \in Conversions, NEW got, ClientGets(c, got)
    PROVE  \/ UNCHANGED dcClient
           \/ dcClient[c].stage = "waiting" /\ Moved(c, dcClient[c].route, "cleaning", got)
<1>1. dcClient = [d \in Conversions |-> dcClient[d]]
  BY DEF ShapeInv
<1>2. dcClient[c] = [route |-> dcClient[c].route, stage |-> dcClient[c].stage,
                     got |-> dcClient[c].got]
  BY ClientRecords
<1>3. CASE dcClient[c].stage = "waiting"
  <2> DEFINE k == dcClient[c]
             l == [k EXCEPT !.stage = "cleaning", !.got = got]
  <2>1. l = [route |-> k.route, stage |-> "cleaning", got |-> got]
    <3>1. k = [route |-> k.route, stage |-> k.stage, got |-> k.got]
      BY <1>2
    <3> DEFINE m == [k EXCEPT !.stage = "cleaning"]
    <3> HIDE DEF k
    <3>2. m = [route |-> k.route, stage |-> "cleaning", got |-> k.got]
      BY <3>1
    <3>3. l = [m EXCEPT !.got = got]
      OBVIOUS
    <3> HIDE DEF l, m
    <3> QED
      BY <3>2, <3>3
  <2>2. dcClient' = [dcClient EXCEPT ![c] = l]
    BY <1>3 DEF ClientGets
  <2> HIDE DEF l
  <2> QED
    BY <1>3, <2>1, <2>2 DEF Moved
<1>4. CASE dcClient[c].stage # "waiting"
  BY <1>1, <1>4 DEF ClientGets
<1> QED
  BY <1>3, <1>4

\* What appending to a queue, taking its head and taking out an element do.
LEMMA QueueGrows ==
    ASSUME NEW q \in Seq(Conversions), NEW c \in Conversions
    PROVE  /\ Append(q, c) \in Seq(Conversions)
           /\ \A d : (\E i \in DOMAIN Append(q, c) : Append(q, c)[i] = d)
                        => d = c \/ \E i \in DOMAIN q : q[i] = d
           /\ (\A i, j \in DOMAIN q : q[i] = q[j] => i = j) /\ (\A i \in DOMAIN q : q[i] # c)
                 => \A i, j \in DOMAIN Append(q, c) : Append(q, c)[i] = Append(q, c)[j] => i = j
<1>1. /\ Append(q, c) \in Seq(Conversions) /\ Len(Append(q, c)) = Len(q) + 1
      /\ \A i \in 1..Len(q) : Append(q, c)[i] = q[i]
      /\ Append(q, c)[Len(q) + 1] = c
  BY AppendProperties
<1>2. /\ DOMAIN q = 1..Len(q) /\ Len(q) \in Nat
      /\ DOMAIN Append(q, c) = 1..(Len(q) + 1)
  BY <1>1, LenProperties
<1> QED
  BY <1>1, <1>2

LEMMA QueueShrinks ==
    ASSUME NEW q \in Seq(Conversions), q # <<>>
    PROVE  /\ Head(q) \in Conversions /\ Tail(q) \in Seq(Conversions)
           /\ \E i \in DOMAIN q : q[i] = Head(q)
           /\ \A d : (\E i \in DOMAIN Tail(q) : Tail(q)[i] = d) => \E i \in DOMAIN q : q[i] = d
           /\ (\A i, j \in DOMAIN q : q[i] = q[j] => i = j) =>
                 /\ \A i \in DOMAIN Tail(q) : Tail(q)[i] # Head(q)
                 /\ \A i, j \in DOMAIN Tail(q) : Tail(q)[i] = Tail(q)[j] => i = j
<1>1. /\ Head(q) \in Conversions /\ Tail(q) \in Seq(Conversions)
      /\ Len(Tail(q)) = Len(q) - 1 /\ \A i \in 1..Len(Tail(q)) : Tail(q)[i] = q[i + 1]
  BY HeadTailProperties
<1>2. /\ DOMAIN q = 1..Len(q) /\ Len(q) \in Nat /\ Len(q) >= 1 /\ Head(q) = q[1]
      /\ DOMAIN Tail(q) = 1..(Len(q) - 1)
  BY <1>1, LenProperties, EmptySeq
<1> QED
  BY <1>1, <1>2

LEMMA PlacesBehind ==
    ASSUME NEW n \in Nat, NEW k \in 1..n, NEW a, NEW b, a = k - 1, b = n - k,
           NEW i \in 1..(a + b), ~(i <= a)
    PROVE  i - a \in 1..b /\ k + (i - a) \in 1..n
  OBVIOUS

LEMMA QueueLoses ==
    ASSUME NEW q \in Seq(Conversions), NEW k \in DOMAIN q
    PROVE  /\ RemoveAt(q, k) \in Seq(Conversions)
           /\ \A d : (\E i \in DOMAIN RemoveAt(q, k) : RemoveAt(q, k)[i] = d)
                        => \E i \in DOMAIN q : q[i] = d
<1> DEFINE l == SubSeq(q, 1, k - 1)
           u == SubSeq(q, k + 1, Len(q))
<1>1. DOMAIN q = 1..Len(q) /\ Len(q) \in Nat /\ k \in 1..Len(q)
  BY LenProperties
<1>2. /\ l \in Seq(Conversions) /\ Len(l) = k - 1
      /\ \A i \in 1..Len(l) : l[i] = q[i]
  <2>1. \A i \in 1..(k - 1) : i \in 1..Len(q)
    BY <1>1
  <2>2. /\ l = [i \in 1..(k - 1) |-> q[i]] /\ k - 1 \in Nat
    BY <1>1
  <2>3. l \in Seq(Conversions)
    BY <2>1, <2>2, ElementOfSeq
  <2> QED
    BY <2>2, <2>3
<1>3. /\ u \in Seq(Conversions) /\ Len(u) = Len(q) - k
      /\ \A i \in 1..Len(u) : u[i] = q[k + i]
  <2> DEFINE n == Len(q)
  <2>1. \A i \in 1..(n - k) : k + i \in 1..n
    BY <1>1
  <2>2. /\ u = [i \in 1..(n - k) |-> q[k + i]] /\ n - k \in Nat
    BY <1>1
  <2>3. u \in Seq(Conversions)
    BY <2>1, <2>2, ElementOfSeq
  <2> QED
    BY <2>2, <2>3
<1> HIDE DEF l, u
<1>4. /\ l \o u \in Seq(Conversions) /\ Len(l \o u) = Len(l) + Len(u)
      /\ \A i \in 1..(Len(l) + Len(u)) : (l \o u)[i] = IF i <= Len(l) THEN l[i] ELSE u[i - Len(l)]
  BY <1>2, <1>3, ConcatProperties
<1>5. RemoveAt(q, k) = l \o u
  BY DEF RemoveAt, l, u
<1>6. ASSUME NEW i \in DOMAIN (l \o u) PROVE \E j \in DOMAIN q : q[j] = (l \o u)[i]
  <2>1. i \in 1..(Len(l) + Len(u))
    BY <1>4, LenProperties
  <2>2. CASE i <= Len(l)
    BY <1>1, <1>2, <1>4, <2>1, <2>2
  <2>3. CASE ~(i <= Len(l))
    <3> DEFINE j == i - Len(l)
    <3>1. k \in 1..Len(q) /\ Len(q) \in Nat /\ Len(l) = k - 1 /\ Len(u) = Len(q) - k
      BY <1>1, <1>2, <1>3
    <3>2. j \in 1..Len(u) /\ k + j \in 1..Len(q)
      BY <2>1, <2>3, <3>1, PlacesBehind
    <3>3. (l \o u)[i] = u[j]
      BY <1>4, <2>1, <2>3
    <3> HIDE DEF j
    <3>4. u[j] = q[k + j]
      BY <1>3, <3>2
    <3> QED
      BY <1>1, <3>2, <3>3, <3>4
  <2> QED
    BY <2>2, <2>3
<1> QED
  BY <1>4, <1>5, <1>6

\* A call moves, and the servers stand: what is in their queues was sent.
LEMMA ServersStand ==
    ASSUME ServersInv, NEW c \in Conversions, NEW route \in {"none"} \cup Routes,
           NEW stage \in Stages, NEW got \in Docs, Moved(c, route, stage, got),
           UNCHANGED <<dcRemote, dcServers>>,
           dcBroken \subseteq dcBroken', dcBroken' \subseteq Conversions,
           dcShared' \in [SharedNames -> Docs], dcTemp' \subseteq Conversions,
           Sent(c) => route = dcClient[c].route /\ stage \notin {"idle", "ready"},
           Queued(c) \/ AtOda(c) => stage = "waiting" \/ c \in dcBroken'
    PROVE  ServersInv'
<1>1. /\ dcClient' \in [Conversions -> Clients]
      /\ dcClient'[c].route = route /\ dcClient'[c].stage = stage
      /\ \A d \in Conversions : d # c => dcClient'[d] = dcClient[d]
  BY MovedTo DEF ServersInv
<1>2. UNCHANGED <<dcRemote, dcQueue, dcOda, dcUploads, dcPdf>>
  BY DEF dcServers
<1>3. ShapeInv'
  BY <1>1, <1>2 DEF ServersInv, ShapeInv
<1>4. \A d : (Queued(d)' <=> Queued(d)) /\ (AtOda(d)' <=> AtOda(d)) /\ (Uploaded(d)' <=> Uploaded(d))
  BY <1>2 DEF Queued, AtOda, Uploaded, LockFree
<1>5. \A d \in Conversions : Sent(d) => Sent(d)' /\ dcClient'[d].route = dcClient[d].route
  BY <1>1 DEF Sent
<1>6. QueueInv'
  <2>1. ASSUME NEW d \in Conversions, (Queued(d) \/ AtOda(d))'
        PROVE  /\ dcRemote' /\ dcClient'[d].route \in CadRoutes /\ Sent(d)'
               /\ dcClient'[d].stage = "waiting" \/ d \in dcBroken'
    BY <1>1, <1>2, <1>4, <1>5, <2>1 DEF ServersInv, QueueInv
  <2>2. /\ \A i, j \in DOMAIN dcQueue' : dcQueue'[i] = dcQueue'[j] => i = j
        /\ dcOda'.stage # "idle" => /\ dcOda'.for \in Conversions /\ ~Queued(dcOda.for)'
                                    /\ dcOda'.holds \in [of : Conversions, whole : BOOLEAN]
    BY <1>2 DEF ServersInv, QueueInv, Queued
  <2> QED
    BY <2>1, <2>2 DEF QueueInv
<1>7. UploadsInv'
  BY <1>4, <1>5 DEF ServersInv, UploadsInv
<1> QED
  BY <1>3, <1>6, <1>7 DEF ServersInv

\* The names a call uses on the volume, whatever its route, are names of it; its
\* input, its product and its output are three.
LEMMA NamesDiffer ==
    ASSUME NEW c \in Conversions
    PROVE  /\ InputName(c) \in SharedNames /\ OutputName(c) \in SharedNames
           /\ ProducedName(c) \in SharedNames
           /\ InputName(c)[2] = Stem[c] /\ OutputName(c)[2] = Stem[c]
           /\ ProducedName(c)[2] = Stem[c]
           /\ ProducedName(c) \notin {InputName(c), OutputName(c)}
  BY DEF InputName, OutputName, ProducedName, SharedNames, ExtOf, OtherExt

LEMMA DocsAre == NoDoc \in Docs /\ \A c \in Conversions, whole \in BOOLEAN : Doc(c, whole) \in Docs
  BY DEF Docs, Doc

LEMMA OwnDocs ==
    ASSUME NEW c \in Conversions, NEW got \in {Doc(c, TRUE), Doc(c, FALSE), NoDoc}
    PROVE  got \in Docs /\ (got = NoDoc \/ got.of = c)
<1>1. Doc(c, TRUE) \in Docs /\ Doc(c, FALSE) \in Docs /\ NoDoc \in Docs
  BY DocsAre
<1>2. Doc(c, TRUE).of = c /\ Doc(c, FALSE).of = c
  BY DEF Doc
<1> HIDE DEF Docs
<1> QED
  BY <1>1, <1>2

\* The steps of a client that reach no server.
LEMMA ClientsKeep ==
    ASSUME ServersInv, NEW c \in Conversions,
           \/ \E route \in Routes : BeginConversion(c, route)
           \/ GiveUp(c) \/ Receive(c) \/ Clean(c) \/ LocalConvert(c) \/ OfficeConvert(c)
    PROVE  ServersInv'
<1> USE DEF ServersInv
<1>1. /\ dcClient[c].route \in {"none"} \cup Routes /\ dcClient[c].stage \in Stages
      /\ dcClient[c].got \in Docs
  BY ClientRecords DEF Clients
<1>2. /\ dcShared \in [SharedNames -> Docs] /\ dcTemp \subseteq Conversions
      /\ dcBroken \subseteq Conversions
  BY DEF ShapeInv
<1>3. Queued(c) \/ AtOda(c) => Sent(c) /\ (dcClient[c].stage = "waiting" \/ c \in dcBroken)
  BY DEF QueueInv
<1>4. ASSUME NEW route \in Routes, BeginConversion(c, route) PROVE ServersInv'
  <2>1. Moved(c, route, "ready", dcClient[c].got) /\ ~Sent(c)
    BY <1>4, ClientRecords DEF BeginConversion, Sent
  <2>2. dcShared' \in [SharedNames -> Docs] /\ dcTemp' \subseteq Conversions
    BY <1>2, <1>4, DocsAre DEF BeginConversion
  <2>3. UNCHANGED <<dcRemote, dcServers, dcBroken>>
    BY <1>4 DEF BeginConversion
  <2> QED
    BY <1>1, <1>2, <1>3, <2>1, <2>2, <2>3, ServersStand DEF Stages
<1>5. ASSUME GiveUp(c) PROVE ServersInv'
  <2>1. Moved(c, dcClient[c].route, "cleaning", dcClient[c].got)
    BY <1>5, ClientRecords DEF GiveUp
  <2>2. dcBroken' = dcBroken \cup {c} /\ UNCHANGED <<dcRemote, dcShared, dcTemp, dcServers>>
    BY <1>5 DEF GiveUp, dcFiles
  <2> QED
    BY <1>1, <1>2, <2>1, <2>2, ServersStand DEF Stages
<1>6. ASSUME Receive(c) PROVE ServersInv'
  <2>1. Moved(c, dcClient[c].route, "cleaning", dcShared[OutputName(c)])
    BY <1>6, ClientRecords DEF Receive
  <2>2. UNCHANGED <<dcRemote, dcShared, dcTemp, dcServers, dcBroken>>
        /\ dcClient[c].stage = "answered"
    BY <1>6 DEF Receive, dcFiles
  <2>3. dcShared[OutputName(c)] \in Docs
    BY <1>2, NamesDiffer
  <2> QED
    BY <1>1, <1>2, <1>3, <2>1, <2>2, <2>3, ServersStand DEF Stages
<1>7. ASSUME Clean(c) PROVE ServersInv'
  <2>1. Moved(c, dcClient[c].route, "ended", dcClient[c].got)
    BY <1>7, ClientRecords DEF Clean
  <2>2. UNCHANGED <<dcRemote, dcServers, dcBroken>> /\ dcClient[c].stage = "cleaning"
    BY <1>7 DEF Clean
  <2>3. dcShared' \in [SharedNames -> Docs] /\ dcTemp' \subseteq Conversions
    BY <1>2, <1>7, DocsAre DEF Clean
  <2> QED
    BY <1>1, <1>2, <1>3, <2>1, <2>2, <2>3, ServersStand DEF Stages
<1>8. ASSUME LocalConvert(c) \/ OfficeConvert(c) PROVE ServersInv'
  <2>1. PICK got \in Docs :
           dcClient' = [dcClient EXCEPT ![c].stage = "ended", ![c].got = got]
    BY <1>8, DocsAre DEF LocalConvert, OfficeConvert
  <2>2. Moved(c, dcClient[c].route, "ended", got)
    BY <2>1, ClientRecords
  <2>3. UNCHANGED <<dcRemote, dcShared, dcServers, dcBroken>> /\ ~Sent(c)
    BY <1>8 DEF LocalConvert, OfficeConvert, Sent
  <2>4. dcTemp' \subseteq Conversions
    BY <1>2, <1>8 DEF LocalConvert, OfficeConvert
  <2> QED
    BY <1>1, <1>2, <1>3, <2>2, <2>3, <2>4, ServersStand DEF Stages
<1> QED
  BY <1>4, <1>5, <1>6, <1>7, <1>8

\* A request reaches the queue of its server.
LEMMA SendKeeps ==
    ASSUME ServersInv, NEW c \in Conversions, SendRequest(c) PROVE ServersInv'
<1> USE DEF ServersInv
<1>1. /\ Moved(c, dcClient[c].route, "waiting", dcClient[c].got)
      /\ dcClient[c].stage = "ready" /\ ~Sent(c) /\ Remote(c)
      /\ UNCHANGED <<dcRemote, dcShared, dcTemp, dcOda, dcPdf, dcBroken>>
  BY ClientRecords DEF SendRequest, Sent, dcFiles
<1>2. /\ dcClient[c].route \in {"none"} \cup Routes /\ dcClient[c].got \in Docs
      /\ "waiting" \in Stages
  BY ClientRecords DEF Clients, Stages
<1>3. /\ dcClient' \in [Conversions -> Clients]
      /\ dcClient'[c].route = dcClient[c].route /\ dcClient'[c].stage = "waiting"
      /\ \A d \in Conversions : d # c => dcClient'[d] = dcClient[d]
  BY <1>1, <1>2, MovedTo
<1>4. ~Queued(c) /\ ~AtOda(c) /\ ~Uploaded(c)
  BY <1>1 DEF QueueInv, UploadsInv
<1>5. \/ /\ dcClient[c].route = "pdf" /\ dcUploads' = Append(dcUploads, c) /\ UNCHANGED dcQueue
      \/ /\ dcClient[c].route # "pdf" /\ dcQueue' = Append(dcQueue, c) /\ UNCHANGED dcUploads
         /\ dcRemote /\ dcClient[c].route \in CadRoutes
  BY <1>1 DEF SendRequest, Remote
<1>6. dcQueue \in Seq(Conversions) /\ dcUploads \in Seq(Conversions)
  BY DEF ShapeInv
<1>7. ShapeInv'
  <2>1. /\ Append(dcQueue, c) \in Seq(Conversions)
        /\ Append(dcUploads, c) \in Seq(Conversions)
    BY <1>6, QueueGrows
  <2>2. dcQueue' \in Seq(Conversions) /\ dcUploads' \in Seq(Conversions)
    BY <1>5, <1>6, <2>1
  <2> QED
    BY <1>1, <1>3, <2>2 DEF ShapeInv
<1>8. /\ \A d : Queued(d)' => Queued(d) \/ (d = c /\ dcRemote /\ dcClient[c].route \in CadRoutes)
      /\ \A d : AtOda(d)' <=> AtOda(d)
      /\ \A d : Uploaded(d)' => Uploaded(d) \/ (d = c /\ dcClient[c].route = "pdf")
      /\ \A i, j \in DOMAIN dcQueue' : dcQueue'[i] = dcQueue'[j] => i = j
  <2>1. CASE dcClient[c].route = "pdf"
    BY <1>1, <1>5, <1>6, <2>1, QueueGrows DEF Queued, AtOda, Uploaded, LockFree, QueueInv
  <2>2. CASE dcClient[c].route # "pdf"
    <3>1. \A i \in DOMAIN dcQueue : dcQueue[i] # c
      BY <1>4 DEF Queued
    <3>2. dcQueue' = Append(dcQueue, c)
      BY <1>5, <2>2
    <3>3. \A i, j \in DOMAIN dcQueue' : dcQueue'[i] = dcQueue'[j] => i = j
      BY <1>6, <3>1, <3>2, QueueGrows DEF QueueInv
    <3>4. \A d : Queued(d)' => Queued(d) \/ d = c
      BY <1>6, <3>2, QueueGrows DEF Queued
    <3> QED
      BY <1>1, <1>5, <2>2, <3>3, <3>4 DEF AtOda, Uploaded, LockFree
  <2> QED
    BY <2>1, <2>2
<1>9. QueueInv'
  <2>1. dcOda'.stage # "idle" => /\ dcOda'.for \in Conversions /\ ~Queued(dcOda.for)'
                                 /\ dcOda'.holds \in [of : Conversions, whole : BOOLEAN]
    BY <1>1, <1>4, <1>8 DEF QueueInv, AtOda
  <2>2. ASSUME NEW d \in Conversions, (Queued(d) \/ AtOda(d))'
        PROVE  /\ dcRemote' /\ dcClient'[d].route \in CadRoutes /\ Sent(d)'
               /\ dcClient'[d].stage = "waiting" \/ d \in dcBroken'
    <3>1. CASE d = c
      BY <1>1, <1>3, <1>4, <1>8, <2>2, <3>1 DEF Sent
    <3>2. CASE d # c
      BY <1>1, <1>3, <1>8, <2>2, <3>2 DEF Sent, QueueInv
    <3> QED
      BY <3>1, <3>2
  <2> QED
    BY <1>8, <2>1, <2>2 DEF QueueInv
<1>10. UploadsInv'
  <2> SUFFICES ASSUME NEW d \in Conversions, Uploaded(d)'
               PROVE  dcClient'[d].route = "pdf" /\ Sent(d)'
    BY DEF UploadsInv
  <2>1. CASE d = c
    BY <1>3, <1>4, <1>8, <2>1 DEF Sent
  <2>2. CASE d # c
    BY <1>3, <1>8, <2>2 DEF Sent, UploadsInv
  <2> QED
    BY <2>1, <2>2
<1> QED
  BY <1>7, <1>9, <1>10

\* A step of the ODA server that answers nobody, or the call it works for, and
\* leaves the others where they are.
LEMMA OdaKeeps == ASSUME ServersInv, OdaStep PROVE ServersInv'
<1> USE DEF ServersInv
<1>1. /\ dcQueue \in Seq(Conversions) /\ dcShared \in [SharedNames -> Docs]
      /\ dcClient \in [Conversions -> Clients] /\ dcBroken \subseteq Conversions
      /\ dcOda \in [for : Conversions \cup {NoDoc}, stage : {"idle", "running", "exited"},
                    holds : Docs]
      /\ ShapeInv
  BY DEF ShapeInv
<1>2. UNCHANGED <<dcRemote, dcTemp, dcUploads, dcPdf>>
  BY DEF OdaStep, OdaAccept, OdaExits, OdaBreaks, OdaFinish, dcFiles
<1>3. dcBroken \subseteq dcBroken'
  BY DEF OdaStep, OdaAccept, OdaExits, OdaBreaks, OdaFinish
<1>4. ASSUME NEW c \in Conversions, Queued(c) \/ AtOda(c),
             dcClient' = dcClient \/ \E ok \in BOOLEAN : Answered(c, ok)
      PROVE  /\ dcClient' \in [Conversions -> Clients]
             /\ dcClient'[c].route = dcClient[c].route /\ (Sent(c) => Sent(c)')
             /\ \A d \in Conversions : d # c => dcClient'[d] = dcClient[d]
  <2>1. CASE dcClient' = dcClient
    BY <1>1, <2>1 DEF Sent
  <2>2. ASSUME NEW ok \in BOOLEAN, Answered(c, ok)
        PROVE  /\ dcClient' \in [Conversions -> Clients]
               /\ dcClient'[c].route = dcClient[c].route /\ (Sent(c) => Sent(c)')
               /\ \A d \in Conversions : d # c => dcClient'[d] = dcClient[d]
    <3>1. PICK s \in Stages :
              /\ Moved(c, dcClient[c].route, s, dcClient[c].got)
              /\ dcClient[c].stage # "waiting" => s = dcClient[c].stage
              /\ dcClient[c].stage = "waiting" => s = IF ok THEN "answered" ELSE "cleaning"
      BY <2>2, AnswersMove
    <3>2. dcClient[c].route \in {"none"} \cup Routes /\ dcClient[c].got \in Docs
      BY ClientRecords DEF Clients
    <3>3. PICK route \in {"none"} \cup Routes, got \in Docs :
              route = dcClient[c].route /\ got = dcClient[c].got
      BY <3>2
    <3>4. Moved(c, route, s, got)
      BY <3>1, <3>3
    <3>5. ShapeInv
      BY <1>1
    <3>6. /\ dcClient' \in [Conversions -> Clients]
          /\ dcClient'[c].route = route /\ dcClient'[c].stage = s
          /\ \A d \in Conversions : d # c => dcClient'[d] = dcClient[d]
      BY <3>4, <3>5, MovedTo
    <3> QED
      BY <3>1, <3>3, <3>6 DEF Sent
  <2> QED
    BY <1>4, <2>1, <2>2
\* the call c is the one the step is about: all others stay, and what is still at
\* the server after the step was there before
<1>5. ASSUME NEW c \in Conversions, Queued(c) \/ AtOda(c),
             dcClient' = dcClient \/ \E ok \in BOOLEAN : Answered(c, ok),
             ShapeInv', \A i, j \in DOMAIN dcQueue' : dcQueue'[i] = dcQueue'[j] => i = j,
             dcOda'.stage # "idle" => /\ dcOda'.for \in Conversions /\ ~Queued(dcOda.for)'
                                      /\ dcOda'.holds \in [of : Conversions, whole : BOOLEAN],
             \A d \in Conversions : (Queued(d) \/ AtOda(d))' => Queued(d) \/ AtOda(d),
             (Queued(c) \/ AtOda(c))' => dcClient' = dcClient
      PROVE  ServersInv'
  <2>1. /\ dcClient'[c].route = dcClient[c].route /\ (Sent(c) => Sent(c)')
        /\ \A d \in Conversions : d # c => dcClient'[d] = dcClient[d]
    BY <1>4, <1>5
  <2>2. ASSUME NEW d \in Conversions, (Queued(d) \/ AtOda(d))'
        PROVE  /\ dcRemote' /\ dcClient'[d].route \in CadRoutes /\ Sent(d)'
               /\ dcClient'[d].stage = "waiting" \/ d \in dcBroken'
    BY <1>2, <1>3, <1>5, <2>1, <2>2 DEF QueueInv, Sent
  <2>3. UploadsInv'
    <3>1. \A d : Uploaded(d)' <=> Uploaded(d)
      BY <1>2 DEF Uploaded, LockFree
    <3>2. \A d \in Conversions : Sent(d) => Sent(d)' /\ dcClient'[d].route = dcClient[d].route
      BY <2>1 DEF Sent
    <3> QED
      BY <3>1, <3>2 DEF UploadsInv
  <2> QED
    BY <1>5, <2>2, <2>3 DEF QueueInv
<1>6. CASE OdaAccept
  <2>1. dcQueue # <<>> /\ dcOda.stage = "idle" /\ dcQueue' = Tail(dcQueue)
        /\ UNCHANGED <<dcShared, dcBroken>>
    BY <1>6 DEF OdaAccept, dcFiles
  <2>c. PICK c \in Conversions : c = Head(dcQueue)
    BY <1>1, <2>1, QueueShrinks
  <2>2. /\ c \in Conversions /\ Queued(c) /\ ~Queued(c)' /\ dcQueue' \in Seq(Conversions)
        /\ \A d : Queued(d)' => Queued(d)
        /\ \A i, j \in DOMAIN dcQueue' : dcQueue'[i] = dcQueue'[j] => i = j
    <3>1. /\ c \in Conversions /\ Tail(dcQueue) \in Seq(Conversions)
          /\ \E i \in DOMAIN dcQueue : dcQueue[i] = c
          /\ \A d : (\E i \in DOMAIN Tail(dcQueue) : Tail(dcQueue)[i] = d)
                       => \E i \in DOMAIN dcQueue : dcQueue[i] = d
      BY <1>1, <2>1, <2>c, QueueShrinks
    <3>2. \A i, j \in DOMAIN dcQueue : dcQueue[i] = dcQueue[j] => i = j
      BY DEF QueueInv
    <3>3. /\ \A i \in DOMAIN Tail(dcQueue) : Tail(dcQueue)[i] # c
          /\ \A i, j \in DOMAIN Tail(dcQueue) : Tail(dcQueue)[i] = Tail(dcQueue)[j] => i = j
      BY <1>1, <2>1, <2>c, <3>2, QueueShrinks
    <3> QED
      BY <2>1, <3>1, <3>3 DEF Queued
  <2>3. \/ Answered(c, FALSE) /\ UNCHANGED dcOda
        \/ dcClient' = dcClient /\ dcShared[InputName(c)] # NoDoc
           /\ dcOda' = [for |-> c, stage |-> "running", holds |-> dcShared[InputName(c)]]
    BY <1>6, <2>c DEF OdaAccept
  <2>4. dcClient' = dcClient \/ \E ok \in BOOLEAN : Answered(c, ok)
    BY <2>3
  <2>5. dcShared[InputName(c)] \in Docs
    BY <1>1, <2>2, NamesDiffer
  <2>6. /\ dcOda' \in [for : Conversions \cup {NoDoc}, stage : {"idle", "running", "exited"},
                       holds : Docs]
        /\ dcOda'.stage # "idle" => /\ dcOda'.for = c /\ dcClient' = dcClient
                                    /\ dcOda'.holds \in [of : Conversions, whole : BOOLEAN]
    <3>1. CASE UNCHANGED dcOda
      BY <1>1, <2>1, <3>1
    <3>2. CASE dcOda' # dcOda
      <4> DEFINE h == dcShared[InputName(c)]
      <4>1. dcClient' = dcClient /\ dcOda' = [for |-> c, stage |-> "running", holds |-> h]
        BY <2>3, <3>2
      <4>2. h \in [of : Conversions, whole : BOOLEAN]
        BY <2>3, <2>5, <3>2 DEF Docs
      <4>3. h \in Docs
        BY <2>5
      <4> HIDE DEF h
      <4> QED
        BY <2>2, <4>1, <4>2, <4>3
    <3> QED
      BY <3>1, <3>2
  <2>7. ShapeInv'
    <3>1. dcClient' \in [Conversions -> Clients]
      BY <1>4, <2>2, <2>4
    <3> QED
      BY <1>1, <1>2, <2>1, <2>2, <2>6, <3>1 DEF ShapeInv
  <2>8. dcOda'.stage # "idle" => /\ dcOda'.for \in Conversions /\ ~Queued(dcOda.for)'
                                 /\ dcOda'.holds \in [of : Conversions, whole : BOOLEAN]
    BY <2>2, <2>6 DEF Queued
  <2>9. \A d \in Conversions : (Queued(d) \/ AtOda(d))' => Queued(d) \/ AtOda(d)
    BY <2>2, <2>6 DEF AtOda
  <2>10. (Queued(c) \/ AtOda(c))' => dcClient' = dcClient
    BY <2>2, <2>6 DEF AtOda
  <2> QED
    BY <1>5, <2>2, <2>4, <2>7, <2>8, <2>9, <2>10
<1>7. ASSUME OdaExits \/ OdaBreaks \/ OdaFinish PROVE ServersInv'
  <2>1. dcOda.stage # "idle" /\ UNCHANGED dcQueue
    BY <1>7 DEF OdaExits, OdaBreaks, OdaFinish
  <2>c. PICK c \in Conversions : c = dcOda.for
    BY <2>1 DEF QueueInv
  <2>2. c \in Conversions /\ AtOda(c) /\ ~Queued(c) /\ dcBroken' \subseteq Conversions
    BY <1>1, <1>7, <2>1, <2>c DEF QueueInv, AtOda, OdaExits, OdaBreaks, OdaFinish
  <2>3. /\ dcClient' = dcClient \/ \E ok \in BOOLEAN : Answered(c, ok)
        /\ dcClient' = dcClient \/ dcOda' = Idling
        /\ dcOda' = Idling \/ dcOda' = [dcOda EXCEPT !.stage = "exited"]
    BY <1>7, <2>c DEF OdaExits, OdaBreaks, OdaFinish
  <2>4. /\ dcOda' \in [for : Conversions \cup {NoDoc}, stage : {"idle", "running", "exited"},
                       holds : Docs]
        /\ dcOda'.stage # "idle" => dcOda'.for = c /\ dcOda'.holds = dcOda.holds
    BY <1>1, <2>3, <2>c, DocsAre DEF Idling
  <2>5. dcShared' \in [SharedNames -> Docs]
    <3>1. dcOda.holds \in Docs /\ Doc(dcOda.holds.of, FALSE) \in Docs
      BY <1>1, <2>1 DEF QueueInv, Docs, Doc
    <3>2. /\ ProducedName(c) \in SharedNames /\ OutputName(c) \in SharedNames
          /\ dcShared[ProducedName(c)] \in Docs /\ NoDoc \in Docs
      BY <1>1, NamesDiffer, DocsAre
    <3>3. \/ UNCHANGED dcShared
          \/ \E x \in Docs : dcShared' = [dcShared EXCEPT ![ProducedName(c)] = x]
          \/ \E x, y \in Docs : dcShared' = [dcShared EXCEPT ![ProducedName(c)] = x,
                                                              ![OutputName(c)] = y]
      BY <1>7, <2>c, <3>1, <3>2 DEF OdaExits, OdaBreaks, OdaFinish
    <3> QED
      BY <1>1, <3>2, <3>3
  <2>6. ShapeInv'
    <3>1. dcClient' \in [Conversions -> Clients]
      BY <1>4, <2>2, <2>3
    <3> QED
      BY <1>2, <2>1, <2>2, <2>4, <2>5, <3>1 DEF ShapeInv
  <2>7. \A d : Queued(d)' <=> Queued(d)
    BY <2>1 DEF Queued
  <2>8. \A d : AtOda(d)' => d = c /\ dcClient' = dcClient
    BY <2>3, <2>4 DEF AtOda, Idling
  <2>9. dcOda'.stage # "idle" => /\ dcOda'.for \in Conversions /\ ~Queued(dcOda.for)'
                                 /\ dcOda'.holds \in [of : Conversions, whole : BOOLEAN]
    BY <2>1, <2>2, <2>4 DEF Queued, QueueInv
  <2>10. \A i, j \in DOMAIN dcQueue' : dcQueue'[i] = dcQueue'[j] => i = j
    BY <2>1 DEF QueueInv
  <2> QED
    BY <1>5, <2>2, <2>3, <2>6, <2>7, <2>8, <2>9, <2>10
<1> QED
  BY <1>6, <1>7 DEF OdaStep

\* A step of the First PDF server, or of its program, answers the call it works
\* for or one that it refuses.
LEMMA PdfKeeps ==
    ASSUME ServersInv,
           PdfStep \/ FirstPdfStep \/ PdfLate \/ \E c \in Conversions : PdfRefuses(c)
    PROVE  ServersInv'
<1> USE DEF ServersInv
<1> DEFINE Pdfs == [for : Conversions \cup {NoDoc}, docx : {"none", "part", "whole"},
                    alive : BOOLEAN, late : BOOLEAN, next : {"drive", "find", "poll"}]
<1>1. /\ ShapeInv /\ dcUploads \in Seq(Conversions) /\ dcPdf \in Pdfs
      /\ dcClient \in [Conversions -> Clients]
  BY DEF ShapeInv
\* the call c is the one answered, if any is
<1>2. ASSUME NEW c \in Conversions, Uploaded(c),
             \/ UNCHANGED dcClient
             \/ \E got \in Docs : ClientGets(c, got),
             UNCHANGED <<dcRemote, dcFiles, dcQueue, dcOda, dcBroken>>,
             dcUploads' \in Seq(Conversions), dcPdf' \in Pdfs,
             \A d \in Conversions : Uploaded(d)' => Uploaded(d)
      PROVE  ServersInv'
  <2>1. dcClient[c].route = "pdf" /\ Sent(c) /\ ~Queued(c) /\ ~AtOda(c)
    BY <1>2 DEF UploadsInv, QueueInv, CadRoutes
  <2>2. /\ dcClient' \in [Conversions -> Clients]
        /\ \A d \in Conversions : d # c => dcClient'[d] = dcClient[d]
        /\ dcClient'[c].route = dcClient[c].route /\ Sent(c)'
    <3>1. CASE UNCHANGED dcClient
      BY <1>1, <2>1, <3>1 DEF Sent
    <3>2. ASSUME NEW got \in Docs, Moved(c, dcClient[c].route, "cleaning", got)
          PROVE  /\ dcClient' \in [Conversions -> Clients]
                 /\ \A d \in Conversions : d # c => dcClient'[d] = dcClient[d]
                 /\ dcClient'[c].route = dcClient[c].route /\ Sent(c)'
      <4>1. dcClient[c].route \in {"none"} \cup Routes /\ "cleaning" \in Stages
        BY ClientRecords DEF Clients, Stages
      <4>2. PICK route \in {"none"} \cup Routes : route = dcClient[c].route
        BY <4>1
      <4>3. Moved(c, route, "cleaning", got)
        BY <3>2, <4>2
      <4>4. ShapeInv
        BY <1>1
      <4>5. /\ dcClient' \in [Conversions -> Clients]
            /\ dcClient'[c].route = route /\ dcClient'[c].stage = "cleaning"
            /\ \A d \in Conversions : d # c => dcClient'[d] = dcClient[d]
        BY <4>1, <4>3, <4>4, MovedTo
      <4> QED
        BY <4>2, <4>5 DEF Sent
    <3> QED
      BY <1>1, <1>2, <3>1, <3>2, GotsMove
  <2>3. UNCHANGED <<dcRemote, dcShared, dcTemp, dcQueue, dcOda, dcBroken>>
    BY <1>2 DEF dcFiles
  <2>4. ShapeInv'
    BY <1>2, <2>2, <2>3 DEF ShapeInv
  <2>5. \A d : (Queued(d)' <=> Queued(d)) /\ (AtOda(d)' <=> AtOda(d))
    BY <2>3 DEF Queued, AtOda
  <2>6. QueueInv'
    <3>1. ASSUME NEW d \in Conversions, (Queued(d) \/ AtOda(d))'
          PROVE  /\ dcRemote' /\ dcClient'[d].route \in CadRoutes /\ Sent(d)'
                 /\ dcClient'[d].stage = "waiting" \/ d \in dcBroken'
      <4>1. dcClient'[d] = dcClient[d] /\ (Queued(d) \/ AtOda(d))
        BY <2>1, <2>2, <2>5, <3>1
      <4> QED
        BY <2>3, <4>1 DEF QueueInv, Sent
    <3>2. /\ \A i, j \in DOMAIN dcQueue' : dcQueue'[i] = dcQueue'[j] => i = j
          /\ dcOda'.stage # "idle" => /\ dcOda'.for \in Conversions /\ ~Queued(dcOda.for)'
                                      /\ dcOda'.holds \in [of : Conversions, whole : BOOLEAN]
      BY <2>3 DEF QueueInv, Queued
    <3> QED
      BY <3>1, <3>2 DEF QueueInv
  <2>7. \A d \in Conversions : Sent(d) => Sent(d)' /\ dcClient'[d].route = dcClient[d].route
    BY <2>2 DEF Sent
  <2>8. UploadsInv'
    BY <1>2, <2>7 DEF UploadsInv
  <2> QED
    BY <2>4, <2>6, <2>8
<1>3. ~LockFree => dcPdf.for \in Conversions
  BY <1>1 DEF LockFree
<1>4. ASSUME NEW got \in Docs, ~LockFree, PdfAnswers(got) PROVE ServersInv'
  <2>1. dcPdf.for \in Conversions /\ Uploaded(dcPdf.for)
    BY <1>3, <1>4 DEF Uploaded
  <2>2. /\ dcPdf' = PdfIdle /\ ClientGets(dcPdf.for, got)
        /\ UNCHANGED <<dcRemote, dcFiles, dcQueue, dcOda, dcUploads, dcBroken>>
    BY <1>4 DEF PdfAnswers
  <2>3. dcPdf' \in Pdfs /\ \A d \in Conversions : Uploaded(d)' => Uploaded(d)
    BY <2>2 DEF PdfIdle, Uploaded, LockFree
  <2> HIDE DEF Pdfs
  <2> QED
    BY <1>1, <1>2, <2>1, <2>2, <2>3
<1>5. ASSUME PdfGoesOn, dcPdf' \in Pdfs, dcPdf'.for = dcPdf.for PROVE ServersInv'
  <2>1. dcPdf.for \in Conversions /\ Uploaded(dcPdf.for)
    BY <1>3, <1>5 DEF Uploaded, PdfGoesOn
  <2>2. UNCHANGED <<dcRemote, dcClient, dcFiles, dcQueue, dcOda, dcUploads, dcBroken>>
    BY <1>5 DEF PdfGoesOn
  <2>3. \A d \in Conversions : Uploaded(d)' => Uploaded(d)
    BY <1>5, <2>2 DEF Uploaded, LockFree
  <2> HIDE DEF Pdfs
  <2> QED
    BY <1>1, <1>2, <1>5, <2>1, <2>2, <2>3
<1>6. CASE PdfStart
  <2>1. /\ dcUploads # <<>> /\ dcUploads' = Tail(dcUploads)
        /\ dcPdf' = [PdfIdle EXCEPT !.for = Head(dcUploads), !.alive = TRUE]
        /\ UNCHANGED <<dcRemote, dcClient, dcFiles, dcQueue, dcOda, dcBroken>>
    BY <1>6 DEF PdfStart
  <2>2. /\ Head(dcUploads) \in Conversions /\ dcUploads' \in Seq(Conversions)
        /\ \E i \in DOMAIN dcUploads : dcUploads[i] = Head(dcUploads)
        /\ \A d : (\E i \in DOMAIN dcUploads' : dcUploads'[i] = d)
                       => \E i \in DOMAIN dcUploads : dcUploads[i] = d
    BY <1>1, <2>1, QueueShrinks
  <2>3. dcPdf' \in Pdfs /\ dcPdf'.for = Head(dcUploads)
    BY <2>1, <2>2 DEF PdfIdle
  <2>4. Uploaded(Head(dcUploads)) /\ \A d \in Conversions : Uploaded(d)' => Uploaded(d)
    BY <2>2, <2>3 DEF Uploaded
  <2> HIDE DEF Pdfs
  <2> QED
    BY <1>2, <2>1, <2>2, <2>3, <2>4
<1>7. ASSUME PdfDrives \/ PdfFinds \/ PdfPolls \/ FirstPdfStep \/ PdfLate PROVE ServersInv'
  <2>1. ~LockFree
    BY <1>7 DEF PdfDrives, PdfFinds, PdfPolls, FirstPdfStep, FirstPdfWrites, FirstPdfExits,
       PdfLate, PdfGoesOn
  <2>2. \/ \E got \in {NoDoc, Doc(dcPdf.for, dcPdf.docx = "whole")} : PdfAnswers(got)
        \/ /\ PdfGoesOn
           /\ \/ \E next \in {"find", "poll"} : dcPdf' = [dcPdf EXCEPT !.next = next]
              \/ \E docx \in {"part", "whole"} : dcPdf' = [dcPdf EXCEPT !.docx = docx]
              \/ dcPdf' = [dcPdf EXCEPT !.alive = FALSE]
              \/ dcPdf' = [dcPdf EXCEPT !.late = TRUE]
    <3>1. FirstPdfWrites => PdfGoesOn /\ \E docx \in {"part", "whole"} :
                                            dcPdf' = [dcPdf EXCEPT !.docx = docx]
      BY DEF FirstPdfWrites
    <3> QED
      BY <1>7, <3>1 DEF PdfDrives, PdfFinds, PdfPolls, FirstPdfStep, FirstPdfExits, PdfLate
  <2>3. \A got \in {NoDoc, Doc(dcPdf.for, dcPdf.docx = "whole")} : got \in Docs
    BY <1>3, <2>1, DocsAre
  <2>4. PdfGoesOn /\ ~(\E got \in {NoDoc, Doc(dcPdf.for, dcPdf.docx = "whole")} : PdfAnswers(got))
          => dcPdf' \in Pdfs /\ dcPdf'.for = dcPdf.for
    <3>1. \A next \in {"find", "poll"} : [dcPdf EXCEPT !.next = next] \in Pdfs
      BY <1>1
    <3>2. \A docx \in {"part", "whole"} : [dcPdf EXCEPT !.docx = docx] \in Pdfs
      BY <1>1
    <3>3. [dcPdf EXCEPT !.alive = FALSE] \in Pdfs /\ [dcPdf EXCEPT !.late = TRUE] \in Pdfs
      BY <1>1
    <3>4. /\ \A next \in {"find", "poll"} : [dcPdf EXCEPT !.next = next].for = dcPdf.for
          /\ \A docx \in {"part", "whole"} : [dcPdf EXCEPT !.docx = docx].for = dcPdf.for
          /\ [dcPdf EXCEPT !.alive = FALSE].for = dcPdf.for
          /\ [dcPdf EXCEPT !.late = TRUE].for = dcPdf.for
      BY <1>1
    <3> HIDE DEF Pdfs
    <3> QED
      BY <2>2, <3>1, <3>2, <3>3, <3>4
  <2> HIDE DEF Pdfs
  <2> QED
    BY <1>4, <1>5, <2>1, <2>2, <2>3, <2>4
<1>8. ASSUME NEW c \in Conversions, PdfRefuses(c) PROVE ServersInv'
  <2>1. PICK i \in DOMAIN dcUploads : dcUploads[i] = c /\ dcUploads' = RemoveAt(dcUploads, i)
    BY <1>8 DEF PdfRefuses
  <2>2. ClientGets(c, NoDoc) /\ UNCHANGED <<dcRemote, dcFiles, dcQueue, dcOda, dcPdf, dcBroken>>
    BY <1>8 DEF PdfRefuses
  <2>3. /\ dcUploads' \in Seq(Conversions)
        /\ \A d : (\E j \in DOMAIN dcUploads' : dcUploads'[j] = d)
                       => \E j \in DOMAIN dcUploads : dcUploads[j] = d
    <3>1. /\ RemoveAt(dcUploads, i) \in Seq(Conversions)
          /\ \A d : (\E j \in DOMAIN RemoveAt(dcUploads, i) : RemoveAt(dcUploads, i)[j] = d)
                       => \E j \in DOMAIN dcUploads : dcUploads[j] = d
      BY <1>1, QueueLoses
    <3> QED
      BY <2>1, <3>1
  <2>4. Uploaded(c) /\ \A d \in Conversions : Uploaded(d)' => Uploaded(d)
    BY <2>1, <2>2, <2>3 DEF Uploaded, LockFree
  <2> HIDE DEF Pdfs
  <2> QED
    BY <1>1, <1>2, <2>2, <2>3, <2>4, DocsAre
<1> HIDE DEF Pdfs
<1> QED
  BY <1>6, <1>7, <1>8 DEF PdfStep

LEMMA ServersInit == ConversionInit => ServersInv /\ OrphansInv
<1> SUFFICES ASSUME ConversionInit PROVE ServersInv /\ OrphansInv
  OBVIOUS
<1>1. ShapeInv
  <2>1. /\ dcRemote \in BOOLEAN /\ dcTemp = {} /\ dcBroken = {}
        /\ dcQueue \in Seq(Conversions) /\ dcUploads \in Seq(Conversions)
        /\ dcShared \in [SharedNames -> Docs]
    BY DocsAre DEF ConversionInit
  <2>2. dcClient \in [Conversions -> Clients]
    BY DocsAre DEF ConversionInit, Clients, Stages
  <2>3. dcOda \in [for : Conversions \cup {NoDoc}, stage : {"idle", "running", "exited"},
                  holds : Docs]
    BY DocsAre DEF ConversionInit, Idling
  <2>4. dcPdf \in [for : Conversions \cup {NoDoc}, docx : {"none", "part", "whole"},
                  alive : BOOLEAN, late : BOOLEAN, next : {"drive", "find", "poll"}]
    BY DEF ConversionInit, PdfIdle
  <2> QED
    BY <2>1, <2>2, <2>3, <2>4 DEF ShapeInv
<1>2. QueueInv /\ UploadsInv
  BY DEF ConversionInit, QueueInv, UploadsInv, Queued, AtOda, Uploaded, LockFree, Idling, PdfIdle
<1> QED
  BY <1>1, <1>2 DEF ServersInv, OrphansInv, ConversionInit

\* What a converter writes that outlived its timeout is a document, under a name
\* of the volume.
LEMMA OrphansKeep == ASSUME ServersInv, OrphansInv, OrphanWrites PROVE ServersInv'
<1>1. PICK o \in dcOrphans :
          \/ dcShared' = [dcShared EXCEPT ![ProducedName(o.for)] = Doc(o.holds.of, FALSE)]
          \/ dcShared' = [dcShared EXCEPT ![ProducedName(o.for)] = o.holds]
  BY DEF OrphanWrites
<1>2. /\ o.for \in Conversions /\ o.holds \in [of : Conversions, whole : BOOLEAN]
      /\ UNCHANGED <<dcRemote, dcClient, dcTemp, dcServers, dcBroken>>
  BY DEF OrphansInv, OrphanWrites
<1>3. o.holds \in Docs /\ Doc(o.holds.of, FALSE) \in Docs
  BY <1>2, DocsAre DEF Docs
<1>4. dcShared \in [SharedNames -> Docs]
  BY DEF ServersInv, ShapeInv
<1>5. dcShared' \in [SharedNames -> Docs]
  BY <1>1, <1>3, <1>4
<1>6. ShapeInv'
  BY <1>2, <1>5 DEF ServersInv, ShapeInv, dcServers
<1>7. QueueInv' /\ UploadsInv'
  BY <1>2 DEF ServersInv, QueueInv, UploadsInv, Queued, AtOda, Uploaded, LockFree, Sent, dcServers
<1> QED
  BY <1>6, <1>7 DEF ServersInv

LEMMA ServersStep == ServersInv /\ OrphansInv /\ [ConversionNext]_dcVars => ServersInv'
<1> SUFFICES ASSUME ServersInv, OrphansInv, [ConversionNext]_dcVars PROVE ServersInv'
  OBVIOUS
<1>1. CASE ConversionNext
  BY <1>1, ClientsKeep, SendKeeps, OdaKeeps, OrphansKeep, PdfKeeps DEF ConversionNext, ClientStep
<1>2. CASE UNCHANGED dcVars
  <2>1. /\ UNCHANGED <<dcRemote, dcClient, dcShared, dcTemp, dcBroken>>
        /\ UNCHANGED <<dcQueue, dcOda, dcUploads, dcPdf>>
    BY <1>2 DEF dcVars
  <2>2. ShapeInv'
    BY <2>1 DEF ServersInv, ShapeInv
  <2>3. QueueInv' /\ UploadsInv'
    BY <2>1 DEF ServersInv, QueueInv, UploadsInv, Queued, AtOda, Uploaded, LockFree, Sent
  <2> QED
    BY <2>2, <2>3 DEF ServersInv
<1> QED
  BY <1>1, <1>2

-----------------------------------------------------------------------------
(* ---- how a call moves ---- *)

\* A call that uses the shared volume, from its copy of the document to its
\* cleaning.
Volume(c) == dcRemote /\ dcClient[c].route \in CadRoutes
Working(c) ==
    Volume(c) /\ dcClient[c].stage \in {"ready", "waiting", "answered", "cleaning"}

\* The stages that follow one another.
Follow == {<<"idle", "ready">>, <<"ready", "waiting">>, <<"ready", "cleaning">>,
           <<"ready", "ended">>, <<"waiting", "answered">>, <<"waiting", "cleaning">>,
           <<"answered", "cleaning">>, <<"cleaning", "ended">>}

\* What a call may get in a step: nothing new, its own document by another way
\* than the volume, or what stands under its output's name.
MayGet(c, got) ==
    \/ got \in {dcClient[c].got, NoDoc}
    \/ got.of = c /\ ~Volume(c)
    \/ got = dcShared[OutputName(c)]

\* One call moves, to a stage that follows; its route is chosen as it begins; it
\* ends by cleaning the volume, if it uses it.
CallMoves(c) ==
    \E route \in {"none"} \cup Routes, stage \in Stages, got \in Docs :
        /\ Moved(c, route, stage, got)
        /\ <<dcClient[c].stage, stage>> \in Follow
        /\ route = dcClient[c].route \/ dcClient[c].stage = "idle"
        /\ MayGet(c, got) /\ (stage = "ready" => got = dcClient[c].got)
        /\ stage = "ended" => Clean(c) \/ ~Volume(c)

LEMMA ClientMoves ==
    ASSUME ServersInv, NEW c \in Conversions,
           \/ \E route \in Routes : BeginConversion(c, route)
           \/ ClientStep(c) \/ GiveUp(c)
    PROVE  CallMoves(c) /\ UNCHANGED dcRemote
<1>1. ShapeInv
  BY DEF ServersInv
<1>2. /\ dcClient[c].route \in {"none"} \cup Routes /\ dcClient[c].stage \in Stages
      /\ dcClient[c].got \in Docs /\ dcShared[OutputName(c)] \in Docs
  BY <1>1, ClientRecords, NamesDiffer DEF Clients, ShapeInv
<1>3. ASSUME NEW route \in Routes, BeginConversion(c, route) PROVE CallMoves(c)
  <2>1. Moved(c, route, "ready", dcClient[c].got) /\ dcClient[c].stage = "idle"
    BY <1>1, <1>3, ClientRecords DEF BeginConversion
  <2> QED
    BY <1>2, <2>1 DEF CallMoves, MayGet, Follow, Stages
<1>4. ASSUME SendRequest(c) PROVE CallMoves(c)
  <2>1. Moved(c, dcClient[c].route, "waiting", dcClient[c].got) /\ dcClient[c].stage = "ready"
    BY <1>1, <1>4, ClientRecords DEF SendRequest
  <2> QED
    BY <1>2, <2>1 DEF CallMoves, MayGet, Follow, Stages
<1>5. ASSUME GiveUp(c) PROVE CallMoves(c)
  <2>1. Moved(c, dcClient[c].route, "cleaning", dcClient[c].got)
        /\ dcClient[c].stage \in {"ready", "waiting"}
    BY <1>1, <1>5, ClientRecords DEF GiveUp
  <2> QED
    BY <1>2, <2>1 DEF CallMoves, MayGet, Follow, Stages
<1>6. ASSUME Receive(c) PROVE CallMoves(c)
  <2>1. /\ Moved(c, dcClient[c].route, "cleaning", dcShared[OutputName(c)])
        /\ dcClient[c].stage = "answered"
    BY <1>1, <1>6, ClientRecords DEF Receive
  <2> QED
    BY <1>2, <2>1 DEF CallMoves, MayGet, Follow, Stages
<1>7. ASSUME Clean(c) PROVE CallMoves(c)
  <2>1. Moved(c, dcClient[c].route, "ended", dcClient[c].got) /\ dcClient[c].stage = "cleaning"
    BY <1>1, <1>7, ClientRecords DEF Clean
  <2> QED
    BY <1>2, <1>7, <2>1 DEF CallMoves, MayGet, Follow, Stages
<1>8. ASSUME LocalConvert(c) \/ OfficeConvert(c) PROVE CallMoves(c)
  <2>1. PICK got \in {Doc(c, TRUE), Doc(c, FALSE), NoDoc} :
           dcClient' = [dcClient EXCEPT ![c].stage = "ended", ![c].got = got]
    BY <1>8 DEF LocalConvert, OfficeConvert
  <2>2. /\ Moved(c, dcClient[c].route, "ended", got) /\ dcClient[c].stage = "ready"
        /\ ~Volume(c)
    <3>1. Moved(c, dcClient[c].route, "ended", got)
      BY <1>1, <2>1, ClientRecords
    <3>2. dcClient[c].stage = "ready" /\ ~Volume(c)
      BY <1>8 DEF LocalConvert, OfficeConvert, Remote, Volume, CadRoutes
    <3> QED
      BY <3>1, <3>2
  <2>3. got \in Docs /\ (got = NoDoc \/ got.of = c)
    BY <2>1, OwnDocs
  <2> QED
    BY <1>2, <2>2, <2>3 DEF CallMoves, MayGet, Follow, Stages
<1>9. UNCHANGED dcRemote
  BY DEF BeginConversion, ClientStep, GiveUp, SendRequest, Receive, Clean, LocalConvert,
     OfficeConvert
<1> QED
  BY <1>3, <1>4, <1>5, <1>6, <1>7, <1>8, <1>9 DEF ClientStep

\* The servers move the call they answer, if it waits.
LEMMA AnsweredMoves ==
    ASSUME ServersInv, NEW c \in Conversions, NEW ok \in BOOLEAN, Answered(c, ok)
    PROVE  CallMoves(c) \/ UNCHANGED dcClient
<1>1. ShapeInv
  BY DEF ServersInv
<1>2. /\ dcClient[c].route \in {"none"} \cup Routes /\ dcClient[c].got \in Docs
      /\ dcClient = [d \in Conversions |-> dcClient[d]]
  BY <1>1, ClientRecords DEF Clients, ShapeInv
<1>3. CASE dcClient[c].stage = "waiting"
  <2>1. \E s \in {"answered", "cleaning"} : Moved(c, dcClient[c].route, s, dcClient[c].got)
    BY <1>1, <1>3, AnswersMove
  <2> QED
    BY <1>2, <1>3, <2>1 DEF CallMoves, MayGet, Follow, Stages
<1>4. CASE dcClient[c].stage # "waiting"
  <2>1. Moved(c, dcClient[c].route, dcClient[c].stage, dcClient[c].got)
    BY <1>1, <1>4, AnswersMove
  <2>2. dcClient' = [dcClient EXCEPT ![c] = dcClient[c]]
    BY <1>1, <2>1, ClientRecords DEF Moved
  <2> QED
    BY <1>2, <2>2
<1> QED
  BY <1>3, <1>4

LEMMA GetsMoves ==
    ASSUME ServersInv, NEW c \in Conversions, Uploaded(c), 
           NEW got \in {Doc(c, TRUE), Doc(c, FALSE), NoDoc},
           ClientGets(c, got)
    PROVE  CallMoves(c) \/ UNCHANGED dcClient
<1>1. ShapeInv
  BY DEF ServersInv
<1>2. /\ dcClient[c].route \in {"none"} \cup Routes /\ dcClient[c].got \in Docs
  BY <1>1, ClientRecords DEF Clients
<1>3. ~Volume(c)
  BY DEF ServersInv, UploadsInv, Volume, CadRoutes
<1>4. got \in Docs /\ (got = NoDoc \/ got.of = c)
  BY OwnDocs
<1>5. CASE dcClient[c].stage = "waiting" /\ Moved(c, dcClient[c].route, "cleaning", got)
  BY <1>2, <1>3, <1>4, <1>5 DEF CallMoves, MayGet, Follow, Stages
<1> QED
  BY <1>1, <1>5, GotsMove

\* In any step at most one call moves.
LEMMA StepsMove ==
    ASSUME ServersInv, [ConversionNext]_dcVars
    PROVE  /\ UNCHANGED dcRemote
           /\ UNCHANGED dcClient \/ \E c \in Conversions : CallMoves(c)
<1>1. CASE OdaStep
  <2>1. \/ UNCHANGED dcClient
        \/ \E ok \in BOOLEAN : Answered(dcOda.for, ok) /\ dcOda.stage # "idle"
        \/ Answered(Head(dcQueue), FALSE) /\ dcQueue # <<>>
    BY <1>1 DEF OdaStep, OdaAccept, OdaExits, OdaBreaks, OdaFinish
  <2>2. dcOda.stage # "idle" => dcOda.for \in Conversions
    BY DEF ServersInv, QueueInv
  <2>3. dcQueue # <<>> => Head(dcQueue) \in Conversions
    BY QueueShrinks DEF ServersInv, ShapeInv
  <2>4. UNCHANGED dcRemote
    BY <1>1 DEF OdaStep, OdaAccept, OdaExits, OdaBreaks, OdaFinish
  <2> QED
    BY <2>1, <2>2, <2>3, <2>4, AnsweredMoves
<1>2. CASE PdfStep \/ FirstPdfStep \/ PdfLate \/ \E c \in Conversions : PdfRefuses(c)
  <2>1. \/ UNCHANGED dcClient
        \/ \E got \in {NoDoc, Doc(dcPdf.for, dcPdf.docx = "whole")} :
              ~LockFree /\ ClientGets(dcPdf.for, got)
        \/ \E c \in Conversions : ClientGets(c, NoDoc) /\ \E i \in DOMAIN dcUploads : dcUploads[i] = c
    BY <1>2 DEF PdfStep, PdfStart, PdfDrives, PdfFinds, PdfPolls, PdfAnswers, PdfGoesOn, PdfLate,
       FirstPdfStep, FirstPdfWrites, FirstPdfExits, PdfRefuses
  <2>2. ~LockFree => dcPdf.for \in Conversions /\ Uploaded(dcPdf.for)
    BY DEF LockFree, Uploaded, ServersInv, ShapeInv
  <2>3. UNCHANGED dcRemote
    BY <1>2 DEF PdfStep, PdfStart, PdfDrives, PdfFinds, PdfPolls, PdfAnswers, PdfGoesOn, PdfLate,
       FirstPdfStep, FirstPdfWrites, FirstPdfExits, PdfRefuses
  <2>4. Doc(dcPdf.for, dcPdf.docx = "whole") \in {Doc(dcPdf.for, TRUE), Doc(dcPdf.for, FALSE)}
    BY DEF Doc
  <2>5. \A c \in Conversions : (\E i \in DOMAIN dcUploads : dcUploads[i] = c) => Uploaded(c)
    BY DEF Uploaded
  <2> QED
    BY <2>1, <2>2, <2>3, <2>4, <2>5, GetsMoves
<1>3. CASE UNCHANGED dcVars
  BY <1>3 DEF dcVars
<1>4. OrphanWrites => UNCHANGED <<dcRemote, dcClient>>
  BY DEF OrphanWrites
<1> QED
  BY <1>1, <1>2, <1>3, <1>4, ClientMoves DEF ConversionNext

\* So what was sent stays sent by the same route, and what uses the volume does
\* so until it cleans it.
LEMMA CallsGoOn ==
    ASSUME ServersInv, [ConversionNext]_dcVars, NEW c \in Conversions
    PROVE  /\ dcClient[c].stage # "idle" =>
                 dcClient'[c].stage # "idle" /\ dcClient'[c].route = dcClient[c].route
           /\ Sent(c) => Sent(c)'
           /\ Working(c) => Working(c)' \/ Clean(c)
<1>1. UNCHANGED dcRemote /\ (UNCHANGED dcClient \/ \E d \in Conversions : CallMoves(d))
  BY StepsMove
<1>2. CASE UNCHANGED dcClient
  BY <1>1, <1>2 DEF Sent, Working, Volume
<1>3. ASSUME NEW d \in Conversions, CallMoves(d)
      PROVE  /\ dcClient[c].stage # "idle" =>
                 dcClient'[c].stage # "idle" /\ dcClient'[c].route = dcClient[c].route
             /\ Sent(c) => Sent(c)'
             /\ Working(c) => Working(c)' \/ Clean(c)
  <2>1. PICK route \in {"none"} \cup Routes, stage \in Stages, got \in Docs :
          /\ Moved(d, route, stage, got)
          /\ <<dcClient[d].stage, stage>> \in Follow
          /\ route = dcClient[d].route \/ dcClient[d].stage = "idle"
          /\ stage = "ended" => Clean(d) \/ ~Volume(d)
    BY <1>3 DEF CallMoves
  <2>2. /\ dcClient'[d].route = route /\ dcClient'[d].stage = stage
        /\ \A x \in Conversions : x # d => dcClient'[x] = dcClient[x]
    BY <2>1, MovedTo DEF ServersInv
  <2>3. CASE c = d
    <3>1. stage \in {"ready", "waiting", "answered", "cleaning", "ended"}
          /\ (dcClient[d].stage \notin {"idle"} => stage # "ready")
          /\ (dcClient[d].stage = "idle" => stage = "ready")
      BY <2>1 DEF Follow
    <3> QED
      BY <1>1, <2>1, <2>2, <2>3, <3>1 DEF Sent, Working, Volume
  <2>4. CASE c # d
    BY <1>1, <2>2, <2>4 DEF Sent, Working, Volume
  <2> QED
    BY <2>3, <2>4
<1> QED
  BY <1>1, <1>2, <1>3

\* What is at the ODA server was there, or is sent now.
LEMMA QueueComes ==
    ASSUME ServersInv, [ConversionNext]_dcVars, NEW c \in Conversions,
           (Queued(c) \/ AtOda(c))'
    PROVE  Queued(c) \/ AtOda(c) \/ ~Sent(c)
<1>1. CASE UNCHANGED <<dcQueue, dcOda>>
  BY <1>1 DEF Queued, AtOda
<1>2. ASSUME NEW d \in Conversions, SendRequest(d) PROVE Queued(c) \/ AtOda(c) \/ ~Sent(c)
  <2>1. dcQueue \in Seq(Conversions) /\ UNCHANGED dcOda
        /\ (UNCHANGED dcQueue \/ dcQueue' = Append(dcQueue, d)) /\ ~Sent(d)
    BY <1>2 DEF SendRequest, ServersInv, ShapeInv, Sent
  <2>2. \A x : (\E i \in DOMAIN Append(dcQueue, d) : Append(dcQueue, d)[i] = x)
                        => x = d \/ \E i \in DOMAIN dcQueue : dcQueue[i] = x
    BY <2>1, QueueGrows
  <2> QED
    BY <2>1, <2>2 DEF Queued, AtOda
<1>3. CASE OdaAccept
  <2>1. /\ dcQueue \in Seq(Conversions) /\ dcQueue # <<>> /\ dcQueue' = Tail(dcQueue)
        /\ UNCHANGED dcOda \/ dcOda'.for = Head(dcQueue)
    <3>1. dcQueue \in Seq(Conversions)
      BY DEF ServersInv, ShapeInv
    <3>2. /\ dcQueue # <<>> /\ dcQueue' = Tail(dcQueue)
          /\ UNCHANGED dcOda \/ \E h : dcOda' = [for |-> Head(dcQueue), stage |-> "running", holds |-> h]
      BY <1>3 DEF OdaAccept
    <3> QED
      BY <3>1, <3>2
  <2>2. /\ \E i \in DOMAIN dcQueue : dcQueue[i] = Head(dcQueue)
        /\ \A x : (\E i \in DOMAIN Tail(dcQueue) : Tail(dcQueue)[i] = x)
                        => \E i \in DOMAIN dcQueue : dcQueue[i] = x
    BY <2>1, QueueShrinks
  <2> QED
    BY <2>1, <2>2 DEF Queued, AtOda
<1>4. CASE OdaExits \/ OdaBreaks \/ OdaFinish
  <2>1. UNCHANGED dcQueue /\ dcOda.stage # "idle"
        /\ (dcOda' = Idling \/ dcOda' = [dcOda EXCEPT !.stage = "exited"])
    BY <1>4 DEF OdaExits, OdaBreaks, OdaFinish
  <2>2. dcOda'.stage # "idle" => dcOda'.for = dcOda.for
    BY <2>1 DEF Idling, ServersInv, ShapeInv
  <2> QED
    BY <2>1, <2>2 DEF Queued, AtOda
<1>5. ASSUME NEW d \in Conversions,
             \/ \E route \in Routes : BeginConversion(d, route)
             \/ GiveUp(d) \/ Receive(d) \/ Clean(d) \/ LocalConvert(d) \/ OfficeConvert(d)
             \/ PdfRefuses(d)
      PROVE  UNCHANGED <<dcQueue, dcOda>>
  BY <1>5 DEF BeginConversion, GiveUp, Receive, Clean, LocalConvert, OfficeConvert, PdfRefuses,
     dcServers
<1>6. PdfStep \/ FirstPdfStep \/ PdfLate \/ UNCHANGED dcVars => UNCHANGED <<dcQueue, dcOda>>
  BY DEF PdfStep, PdfStart, PdfDrives, PdfFinds, PdfPolls, PdfAnswers, PdfGoesOn, PdfLate,
     FirstPdfStep, FirstPdfWrites, FirstPdfExits, dcVars
<1>7. OrphanWrites => UNCHANGED <<dcQueue, dcOda>>
  BY DEF OrphanWrites, dcServers
<1> QED
  BY <1>1, <1>2, <1>3, <1>4, <1>5, <1>6, <1>7 DEF ConversionNext, ClientStep, OdaStep

LEMMA SettledStays ==
    ASSUME ServersInv, [ConversionNext]_dcVars, NEW c \in Conversions, Settled(c)
    PROVE  Settled(c)' /\ ProducedName(c)' = ProducedName(c)
<1>1. Sent(c)' /\ dcClient'[c].route = dcClient[c].route
  BY CallsGoOn DEF Settled, Sent
<1>2. ~(Queued(c) \/ AtOda(c))'
  BY QueueComes DEF Settled
<1> QED
  BY <1>1, <1>2 DEF Settled, ProducedName, ExtOf

\* Nobody outlives a timeout but the converter whose timeout passes.
LEMMA OrphansCome ==
    ASSUME [ConversionNext]_dcVars, NEW o \in dcOrphans', o \notin dcOrphans
    PROVE  OdaBreaks /\ o = [for |-> dcOda.for, holds |-> dcOda.holds]
<1>1. ASSUME NEW c \in Conversions,
             \/ \E route \in Routes : BeginConversion(c, route)
             \/ ClientStep(c) \/ GiveUp(c) \/ PdfRefuses(c)
      PROVE  UNCHANGED dcOrphans
  BY <1>1 DEF BeginConversion, ClientStep, GiveUp, PdfRefuses, SendRequest, Receive, Clean,
     LocalConvert, OfficeConvert
<1>2. OdaAccept \/ OdaExits \/ OdaFinish => UNCHANGED dcOrphans
  BY DEF OdaAccept, OdaExits, OdaFinish
<1>3. PdfStep \/ FirstPdfStep \/ PdfLate \/ UNCHANGED dcVars => UNCHANGED dcOrphans
  BY DEF PdfStep, PdfStart, PdfDrives, PdfFinds, PdfPolls, PdfAnswers, PdfGoesOn, PdfLate,
     FirstPdfStep, FirstPdfWrites, FirstPdfExits, dcVars
<1>4. OrphanWrites => dcOrphans' \subseteq dcOrphans
  BY DEF OrphanWrites
<1>5. OdaBreaks => o = [for |-> dcOda.for, holds |-> dcOda.holds]
  BY DEF OdaBreaks
<1> QED
  BY <1>1, <1>2, <1>3, <1>4, <1>5 DEF ConversionNext, OdaStep

LEMMA OrphansStay ==
    ASSUME ServersInv, OrphansInv, [ConversionNext]_dcVars PROVE OrphansInv'
<1>1. dcBroken \subseteq dcBroken'
  <2>1. ASSUME NEW c \in Conversions,
               \/ \E route \in Routes : BeginConversion(c, route)
               \/ ClientStep(c) \/ GiveUp(c) \/ PdfRefuses(c)
        PROVE  dcBroken \subseteq dcBroken'
    BY <2>1 DEF BeginConversion, ClientStep, GiveUp, PdfRefuses, SendRequest, Receive, Clean,
       LocalConvert, OfficeConvert
  <2>2. OdaStep \/ OrphanWrites => dcBroken \subseteq dcBroken'
    BY DEF OdaStep, OdaAccept, OdaExits, OdaBreaks, OdaFinish, OrphanWrites
  <2>3. PdfStep \/ FirstPdfStep \/ PdfLate \/ UNCHANGED dcVars => dcBroken \subseteq dcBroken'
    BY DEF PdfStep, PdfStart, PdfDrives, PdfFinds, PdfPolls, PdfAnswers, PdfGoesOn, PdfLate,
       FirstPdfStep, FirstPdfWrites, FirstPdfExits, dcVars
  <2> QED
    BY <2>1, <2>2, <2>3 DEF ConversionNext
<1> SUFFICES ASSUME NEW o \in dcOrphans'
             PROVE  /\ o \in [for : Conversions, holds : [of : Conversions, whole : BOOLEAN]]
                    /\ Settled(o.for)' /\ o.for \in dcBroken'
  BY DEF OrphansInv, Settled, Sent, Queued, AtOda
<1>2. CASE o \in dcOrphans
  <2>1. PICK c \in Conversions : c = o.for /\ Settled(c) /\ c \in dcBroken
    BY <1>2 DEF OrphansInv
  <2>2. Settled(c)'
    BY <2>1, SettledStays
  <2>3. Settled(o.for)'
    BY <2>1, <2>2 DEF Settled, Sent, Queued, AtOda
  <2> QED
    BY <1>1, <1>2, <2>1, <2>3 DEF OrphansInv
<1>3. CASE o \notin dcOrphans
  <2>1. OdaBreaks /\ o = [for |-> dcOda.for, holds |-> dcOda.holds]
    BY <1>3, OrphansCome
  <2>2. PICK c \in Conversions : c = dcOda.for /\ AtOda(c) /\ ~Queued(c) /\ Sent(c)
    BY <2>1 DEF OdaBreaks, ServersInv, QueueInv, AtOda
  <2>3. dcOda.holds \in [of : Conversions, whole : BOOLEAN]
    BY <2>1 DEF OdaBreaks, ServersInv, QueueInv
  <2>4. dcOda'.stage = "idle" /\ UNCHANGED dcQueue /\ c \in dcBroken'
    BY <2>1, <2>2 DEF OdaBreaks, Idling
  <2>5. Sent(c)'
    BY <2>2, CallsGoOn
  <2>6. o.for = c /\ o.holds = dcOda.holds
    BY <2>1, <2>2
  <2>7. Settled(o.for)'
    BY <2>2, <2>4, <2>5, <2>6 DEF Settled, Sent, Queued, AtOda
  <2> QED
    BY <2>1, <2>2, <2>3, <2>4, <2>6, <2>7
<1> QED
  BY <1>2, <1>3

LEMMA ServersInductive ==
    ServersInv /\ OrphansInv /\ [ConversionNext]_dcVars => ServersInv' /\ OrphansInv'
BY ServersStep, OrphansStay

\* What the inductive invariant says of the types.
LEMMA ServersTyped == ServersInv /\ OrphansInv => ConversionTypeOK
<1> SUFFICES ASSUME ServersInv, OrphansInv PROVE ConversionTypeOK
  OBVIOUS
<1>1. \A c \in Conversions : /\ dcClient[c].stage \in Stages
                             /\ dcClient[c].got \in Docs
  BY DEF ServersInv, ShapeInv, Clients
<1>2. /\ \A i \in DOMAIN dcQueue : dcQueue[i] \in Conversions
      /\ \A i \in DOMAIN dcUploads : dcUploads[i] \in Conversions
  BY LenProperties, ElementOfSeq DEF ServersInv, ShapeInv
<1> QED
  BY <1>1, <1>2 DEF ConversionTypeOK, ServersInv, ShapeInv, OrphansInv, Docs

\* The clients, the servers and the shared volume keep their types
\* (oda_converter_service.py, pdf_to_docx_converter.py, first_pdf_converter/), for
\* any calls, names, sizes and routes.
THEOREM ConversionTypeCorrect == ConversionSpec => []ConversionTypeOK
BY ServersTyped, ServersInit, ServersInductive, PTL DEF ConversionSpec

-----------------------------------------------------------------------------
(* ---- what is left on the shared volume is explained ---- *)

\* A file stands there for a call that gave up or broke, for one that will clean
\* it, or for one whose converter has just exited.
Explained(n) ==
    \/ \E c \in dcBroken : Stem[c] = n[2]
    \/ \E c \in Conversions : Working(c) /\ n \in {InputName(c), OutputName(c)}
    \/ dcOda.stage = "exited" /\ n = ProducedName(dcOda.for)
LeftInv == \A n \in SharedNames : dcShared[n] # NoDoc => Explained(n)

\* A step in which what explains a file goes only with the file.
LEMMA LeftKeeps ==
    ASSUME ServersInv, LeftInv, [ConversionNext]_dcVars, dcBroken \subseteq dcBroken',
           dcOda.stage = "exited" =>
              UNCHANGED dcOda \/ dcShared'[ProducedName(dcOda.for)] = NoDoc,
           \A n \in SharedNames : dcShared'[n] # NoDoc =>
              dcShared[n] # NoDoc \/ Explained(n)'
    PROVE  LeftInv'
<1> SUFFICES ASSUME NEW n \in SharedNames, dcShared'[n] # NoDoc, Explained(n)
             PROVE  Explained(n)'
  BY DEF LeftInv
<1>1. CASE \E c \in dcBroken : Stem[c] = n[2]
  BY <1>1 DEF Explained
<1>2. ASSUME NEW c \in Conversions, Working(c), n \in {InputName(c), OutputName(c)}
      PROVE  Explained(n)'
  <2>1. Working(c)' /\ dcClient'[c].route = dcClient[c].route
    <3>1. Clean(c) => dcShared'[n] = NoDoc
      BY <1>2 DEF Clean, Working, Volume, CadRoutes, ServersInv, ShapeInv
    <3> QED
      BY <1>2, <3>1, CallsGoOn DEF Working
  <2>2. InputName(c)' = InputName(c) /\ OutputName(c)' = OutputName(c)
    BY <2>1 DEF InputName, OutputName, ExtOf
  <2> QED
    BY <1>2, <2>1, <2>2 DEF Explained
<1>3. CASE dcOda.stage = "exited" /\ n = ProducedName(dcOda.for)
  <2>1. UNCHANGED dcOda
    BY <1>3
  <2>2. PICK c \in Conversions : c = dcOda.for /\ AtOda(c)
    BY <1>3 DEF ServersInv, QueueInv, AtOda
  <2>3. dcClient[c].stage # "idle"
    BY <2>2 DEF ServersInv, QueueInv, Sent
  <2>4. ProducedName(c)' = ProducedName(c)
    BY <2>3, CallsGoOn DEF ProducedName, ExtOf
  <2>5. dcOda'.stage = "exited" /\ dcOda'.for = c /\ n = ProducedName(c)'
    BY <1>3, <2>1, <2>2, <2>4
  <2> QED
    BY <2>5 DEF Explained, ProducedName, ExtOf
<1> QED
  BY <1>1, <1>2, <1>3 DEF Explained

\* The steps that write on the volume, and all others.
LEMMA LeftByBegin ==
    ASSUME ServersInv, LeftInv, NEW c \in Conversions, NEW route \in Routes,
           BeginConversion(c, route)
    PROVE  LeftInv'
<1>1. /\ Moved(c, route, "ready", dcClient[c].got) /\ dcClient[c].stage = "idle"
      /\ UNCHANGED <<dcRemote, dcServers, dcBroken>>
  BY ClientRecords DEF BeginConversion, ServersInv
<1>2. dcClient'[c].route = route /\ dcClient'[c].stage = "ready"
  <2>1. dcClient[c].got \in Docs /\ ShapeInv
    BY ClientRecords DEF ServersInv, Clients
  <2> QED
    BY <1>1, <2>1, MovedTo DEF Stages
<1>5. [ConversionNext]_dcVars
  BY DEF ConversionNext
<1>6. \/ UNCHANGED dcShared
      \/ /\ route \in CadRoutes /\ dcRemote
         /\ dcShared' = [dcShared EXCEPT ![InputName(c)'] = Doc(c, TRUE)]
  BY <1>2 DEF BeginConversion, InputName, ExtOf
<1>7. ASSUME NEW n \in SharedNames, dcShared'[n] # NoDoc, dcShared[n] = NoDoc PROVE Explained(n)'
  <2>1. /\ route \in CadRoutes /\ dcRemote /\ n = InputName(c)'
    BY <1>6, <1>7 DEF ServersInv, ShapeInv
  <2>2. Working(c)'
    BY <1>1, <1>2, <2>1 DEF Working, Volume
  <2> QED
    BY <2>1, <2>2 DEF Explained, InputName, ExtOf
<1>8. UNCHANGED <<dcOda, dcBroken>>
  BY <1>1 DEF dcServers
<1> QED
  BY <1>5, <1>7, <1>8, LeftKeeps

LEMMA LeftByOda == ASSUME ServersInv, LeftInv, OdaStep PROVE LeftInv'
<1>1. [ConversionNext]_dcVars
  BY DEF ConversionNext
<1>2. dcShared \in [SharedNames -> Docs] /\ ShapeInv
  BY DEF ServersInv, ShapeInv
<1>3. CASE OdaAccept
  <2>1. UNCHANGED <<dcShared, dcBroken>> /\ dcOda.stage = "idle"
    BY <1>3 DEF OdaAccept, dcFiles
  <2> QED
    BY <1>1, <2>1, LeftKeeps
<1>4. ASSUME OdaExits \/ OdaBreaks \/ OdaFinish PROVE LeftInv'
  <2>1. dcOda.stage # "idle"
    BY <1>4 DEF OdaExits, OdaBreaks, OdaFinish
  <2>2. PICK c \in Conversions : c = dcOda.for /\ AtOda(c)
    BY <2>1 DEF ServersInv, QueueInv, AtOda
  <2>3. Volume(c) /\ Sent(c) /\ (dcClient[c].stage = "waiting" \/ c \in dcBroken)
    BY <2>2 DEF ServersInv, QueueInv, Volume
  <2>4. /\ ProducedName(c) \in SharedNames /\ OutputName(c) \in SharedNames
        /\ ProducedName(c)[2] = Stem[c] /\ OutputName(c)[2] = Stem[c]
    BY NamesDiffer
  <2>5. /\ dcClient'[c].route = dcClient[c].route
        /\ ProducedName(c)' = ProducedName(c) /\ OutputName(c)' = OutputName(c)
    BY <1>1, <2>3, CallsGoOn DEF Sent, ProducedName, OutputName, ExtOf
  <2>6. dcBroken \subseteq dcBroken'
    BY <1>4 DEF OdaExits, OdaBreaks, OdaFinish
  <2>7. c \in dcBroken' => /\ \A n \in {ProducedName(c), OutputName(c)} : Explained(n)'
    BY <2>4 DEF Explained
  <2>8. CASE OdaExits
    <3>1. /\ UNCHANGED dcShared /\ c \in dcBroken'
          \/ \E x : dcShared' = [dcShared EXCEPT ![ProducedName(c)] = x]
      BY <2>2, <2>8 DEF OdaExits
    <3>2. dcOda.stage = "running" /\ dcOda'.stage = "exited" /\ dcOda'.for = c
      BY <1>2, <2>2, <2>8 DEF OdaExits, ShapeInv
    <3>3. \A n \in SharedNames : dcShared'[n] # NoDoc => dcShared[n] # NoDoc \/ Explained(n)'
      <4>1. Explained(ProducedName(c))'
        BY <3>2 DEF Explained, ProducedName, ExtOf
      <4>2. \A n \in SharedNames : dcShared'[n] = dcShared[n] \/ n = ProducedName(c)
        BY <1>2, <3>1
      <4> QED
        BY <2>5, <4>1, <4>2 DEF Explained
    <3> QED
      BY <1>1, <2>6, <3>2, <3>3, LeftKeeps
  <2>9. CASE OdaBreaks
    <3>1. /\ dcOda.stage = "running" /\ c \in dcBroken'
          /\ UNCHANGED dcShared \/ \E x : dcShared' = [dcShared EXCEPT ![ProducedName(c)] = x]
      BY <2>2, <2>9 DEF OdaBreaks
    <3>2. \A n \in SharedNames : dcShared'[n] # NoDoc => dcShared[n] # NoDoc \/ Explained(n)'
      <4>1. \A n \in SharedNames : dcShared'[n] = dcShared[n] \/ n = ProducedName(c)
        BY <1>2, <3>1
      <4> QED
        BY <2>7, <3>1, <4>1
    <3> QED
      BY <1>1, <2>6, <3>1, <3>2, LeftKeeps
  <2>10. CASE OdaFinish
    <3> DEFINE product == dcShared[ProducedName(c)]
    <3>1. /\ Answered(c, product # NoDoc)
          /\ dcShared' = IF product = NoDoc THEN dcShared
                         ELSE [dcShared EXCEPT ![ProducedName(c)] = NoDoc,
                                               ![OutputName(c)] = product]
      BY <2>2, <2>10 DEF OdaFinish
    <3>2. dcShared'[ProducedName(c)] = NoDoc
          /\ \A n \in SharedNames : dcShared'[n] = dcShared[n] \/ n \in {ProducedName(c), OutputName(c)}
      BY <1>2, <2>4, <3>1, NamesDiffer
    <3>3. ASSUME product # NoDoc PROVE Explained(OutputName(c))'
      <4>1. CASE c \in dcBroken
        BY <2>4, <2>5, <2>6, <4>1 DEF Explained
      <4>2. CASE c \notin dcBroken
        <5>1. dcClient[c].stage = "waiting"
          BY <2>3, <4>2
        <5>2. Moved(c, dcClient[c].route, "answered", dcClient[c].got)
          BY <1>2, <3>1, <3>3, <5>1, AnswersMove
        <5>3. /\ dcClient[c].route \in {"none"} \cup Routes /\ dcClient[c].got \in Docs
              /\ "answered" \in Stages
          BY <1>2, ClientRecords DEF Clients, Stages
        <5>4. dcClient'[c].stage = "answered"
          <6> HIDE DEF product
          <6>1. DOMAIN dcClient = Conversions
            BY <1>2 DEF ShapeInv
          <6> QED
            BY <5>2, <6>1 DEF Moved
        <5>5. UNCHANGED dcRemote
          BY <2>10 DEF OdaFinish
        <5>6. Working(c)'
          BY <2>3, <2>5, <5>4, <5>5 DEF Working, Volume
        <5> QED
          BY <5>6 DEF Explained, OutputName, ExtOf
      <4> QED
        BY <4>1, <4>2
    <3>4. product = NoDoc => UNCHANGED dcShared
      BY <3>1
    <3> HIDE DEF product
    <3>5. Explained(OutputName(c))' => \A n \in SharedNames : n = OutputName(c) => Explained(n)'
      BY <2>5 DEF Explained
    <3>6. \A n \in SharedNames : dcShared'[n] # NoDoc => dcShared[n] # NoDoc \/ Explained(n)'
      BY <3>2, <3>3, <3>4, <3>5
    <3> QED
      BY <1>1, <2>2, <2>6, <3>2, <3>6, LeftKeeps
  <2> QED
    BY <1>4, <2>8, <2>9, <2>10
<1> QED
  BY <1>3, <1>4 DEF OdaStep

LEMMA LeftInductive ==
    ServersInv /\ OrphansInv /\ LeftInv /\ [ConversionNext]_dcVars => LeftInv'
<1> SUFFICES ASSUME ServersInv, OrphansInv, LeftInv, [ConversionNext]_dcVars PROVE LeftInv'
  OBVIOUS
<1>1. ASSUME NEW c \in Conversions, SendRequest(c) \/ GiveUp(c) \/ Receive(c) \/ LocalConvert(c)
                                    \/ OfficeConvert(c) \/ PdfRefuses(c)
      PROVE  UNCHANGED <<dcShared, dcOda>> /\ dcBroken \subseteq dcBroken'
  BY <1>1 DEF SendRequest, GiveUp, Receive, LocalConvert, OfficeConvert, PdfRefuses, dcFiles,
     dcServers
<1>2. ASSUME PdfStep \/ FirstPdfStep \/ PdfLate \/ UNCHANGED dcVars
      PROVE  UNCHANGED <<dcShared, dcOda>> /\ dcBroken \subseteq dcBroken'
  BY <1>2 DEF PdfStep, PdfStart, PdfDrives, PdfFinds, PdfPolls, PdfAnswers, PdfGoesOn, PdfLate,
     FirstPdfStep, FirstPdfWrites, FirstPdfExits, dcVars, dcFiles
<1>3. UNCHANGED <<dcShared, dcOda>> /\ dcBroken \subseteq dcBroken' => LeftInv'
  BY LeftKeeps
<1>4. ASSUME NEW c \in Conversions, Clean(c) PROVE LeftInv'
  <2>1. UNCHANGED <<dcOda, dcBroken>>
    BY <1>4 DEF Clean, dcServers
  <2>2. \A n \in SharedNames : dcShared'[n] # NoDoc => dcShared[n] # NoDoc
    BY <1>4, NamesDiffer DEF Clean, ServersInv, ShapeInv
  <2> QED
    BY <2>1, <2>2, LeftKeeps
<1>5. ASSUME OrphanWrites PROVE LeftInv'
  <2>1. PICK o \in dcOrphans : \E x : dcShared' = [dcShared EXCEPT ![ProducedName(o.for)] = x]
    BY <1>5 DEF OrphanWrites
  <2>2. PICK c \in Conversions : c = o.for /\ c \in dcBroken
    BY DEF OrphansInv
  <2>3. ProducedName(c)[2] = Stem[c] /\ UNCHANGED <<dcOda, dcBroken>>
    BY <1>5, NamesDiffer DEF OrphanWrites, dcServers
  <2>4. \A n \in SharedNames : dcShared'[n] = dcShared[n] \/ n = ProducedName(c)
    BY <2>1, <2>2 DEF ServersInv, ShapeInv
  <2>5. \A n \in SharedNames : dcShared'[n] # NoDoc => dcShared[n] # NoDoc \/ Explained(n)'
    BY <2>2, <2>3, <2>4 DEF Explained
  <2> QED
    BY <2>3, <2>5, LeftKeeps
<1> QED
  BY <1>1, <1>2, <1>3, <1>4, <1>5, LeftByBegin, LeftByOda DEF ConversionNext, ClientStep

-----------------------------------------------------------------------------
(* ---- calls of different names are kept apart ---- *)

Distinct == \A c, d \in Conversions : Stem[c] = Stem[d] => c = d

\* What stands under a name of a call is of that call, and is all of it, but for
\* the product of a converter that broke.
OwnFile(n) ==
    \A c \in Conversions : Stem[c] = n[2] =>
        /\ dcShared[n].of = c
        /\ dcShared[n].whole \/ (n = ProducedName(c) /\ Settled(c))
OwnGot(c) ==
    LET client == dcClient[c]
    IN  /\ client.got # NoDoc => client.got.of = c /\ (Volume(c) => client.got.whole)
        /\ client.stage = "idle" => client.got = NoDoc
OwnInv ==
    /\ \A n \in SharedNames : dcShared[n] # NoDoc => OwnFile(n)
    /\ dcOda.stage # "idle" => dcOda.holds = Doc(dcOda.for, TRUE)
    /\ \A c \in Conversions : OwnGot(c)

\* What a call gets is its own, when what stands under the names is.
LEMMA GotsStay ==
    ASSUME ServersInv, OwnInv, [ConversionNext]_dcVars, NEW c \in Conversions
    PROVE  OwnGot(c)'
<1>1. UNCHANGED dcRemote /\ (UNCHANGED dcClient \/ \E d \in Conversions : CallMoves(d))
  BY StepsMove
<1>2. OwnGot(c)
  BY DEF OwnInv
<1>3. dcClient'[c] = dcClient[c] => OwnGot(c)'
  BY <1>1, <1>2 DEF OwnGot, Volume
<1>4. ASSUME CallMoves(c) PROVE OwnGot(c)'
  <2>1. PICK route \in {"none"} \cup Routes, stage \in Stages, got \in Docs :
          /\ Moved(c, route, stage, got)
          /\ <<dcClient[c].stage, stage>> \in Follow
          /\ route = dcClient[c].route \/ dcClient[c].stage = "idle"
          /\ MayGet(c, got) /\ (stage = "ready" => got = dcClient[c].got)
    BY <1>4 DEF CallMoves
  <2>2. dcClient'[c].route = route /\ dcClient'[c].stage = stage /\ dcClient'[c].got = got
    BY <2>1, MovedTo DEF ServersInv
  <2>3. stage # "idle" /\ (dcClient[c].stage = "idle" => stage = "ready")
    BY <2>1 DEF Follow
  <2>4. CASE dcClient[c].stage = "idle"
    BY <1>2, <2>1, <2>2, <2>3, <2>4 DEF OwnGot
  <2>5. CASE dcClient[c].stage # "idle"
    <3>1. route = dcClient[c].route /\ (Volume(c)' <=> Volume(c))
      BY <1>1, <2>1, <2>2, <2>5 DEF Volume
    <3>2. got # NoDoc => got.of = c /\ (Volume(c) => got.whole)
      <4>1. CASE got \in {dcClient[c].got, NoDoc} \/ (got.of = c /\ ~Volume(c))
        BY <1>2, <4>1 DEF OwnGot
      <4>2. CASE got = dcShared[OutputName(c)]
        <5>1. /\ OutputName(c) \in SharedNames /\ OutputName(c)[2] = Stem[c]
              /\ ProducedName(c) # OutputName(c)
          BY NamesDiffer
        <5> QED
          BY <4>2, <5>1 DEF OwnInv, OwnFile
      <4> QED
        BY <2>1, <4>1, <4>2 DEF MayGet
    <3> QED
      BY <2>2, <2>3, <3>1, <3>2 DEF OwnGot
  <2> QED
    BY <2>4, <2>5
<1>5. ASSUME NEW d \in Conversions, d # c, CallMoves(d) PROVE dcClient'[c] = dcClient[c]
  BY <1>5 DEF CallMoves, Moved, ServersInv, ShapeInv
<1> QED
  BY <1>1, <1>3, <1>4, <1>5

\* The file of a step that writes none, or one that is its call's.
LEMMA OwnKeeps ==
    ASSUME ServersInv, OwnInv, [ConversionNext]_dcVars,
           \A n \in SharedNames : dcShared'[n] # NoDoc =>
              dcShared'[n] = dcShared[n] \/ OwnFile(n)',
           dcOda'.stage # "idle" => dcOda'.holds = Doc(dcOda'.for, TRUE)
    PROVE  OwnInv'
<1>1. ASSUME NEW n \in SharedNames, dcShared'[n] # NoDoc, dcShared'[n] = dcShared[n]
      PROVE  OwnFile(n)'
  <2>1. OwnFile(n)
    BY <1>1 DEF OwnInv
  <2>2. ASSUME NEW c \in Conversions, Stem[c] = n[2]
        PROVE  /\ dcShared'[n].of = c
               /\ dcShared'[n].whole \/ (n = ProducedName(c)' /\ Settled(c)')
    BY <1>1, <2>1, <2>2, SettledStays DEF OwnFile
  <2> QED
    BY <2>2 DEF OwnFile
<1>2. \A c \in Conversions : OwnGot(c)'
  BY GotsStay
<1> QED
  BY <1>1, <1>2 DEF OwnInv

\* Who outlived a timeout works on the whole document of its call.
OrphansOwn == \A o \in dcOrphans : o.holds = Doc(o.for, TRUE)

LEMMA OwnInductive ==
    Distinct /\ ServersInv /\ OrphansInv /\ OrphansOwn /\ OwnInv /\ [ConversionNext]_dcVars
        => OwnInv' /\ OrphansOwn'
<1> SUFFICES ASSUME Distinct, ServersInv, OrphansInv, OrphansOwn, OwnInv, [ConversionNext]_dcVars
             PROVE  OwnInv' /\ OrphansOwn'
  OBVIOUS
<1>1. /\ dcShared \in [SharedNames -> Docs] /\ ShapeInv
      /\ dcOda.stage # "idle" => dcOda.holds = Doc(dcOda.for, TRUE)
  BY DEF ServersInv, ShapeInv, OwnInv
<1>2. ASSUME UNCHANGED <<dcShared, dcOda>> PROVE OwnInv'
  BY <1>1, <1>2, OwnKeeps
\* a whole document of its own is under the right name anywhere
<1>3. ASSUME NEW c \in Conversions, NEW n \in SharedNames, n[2] = Stem[c],
             dcShared'[n] = Doc(c, TRUE)
      PROVE  OwnFile(n)'
  BY <1>3 DEF OwnFile, Distinct, Doc
<1>4. ASSUME NEW c \in Conversions, NEW route \in Routes, BeginConversion(c, route) PROVE OwnInv'
  <2>1. \/ UNCHANGED dcShared
        \/ \E n \in SharedNames : /\ n[2] = Stem[c]
                                  /\ dcShared' = [dcShared EXCEPT ![n] = Doc(c, TRUE)]
    <3>1. \A ext \in {"dwg", "dxf"} : /\ <<"input", Stem[c], ext>> \in SharedNames
                                      /\ <<"input", Stem[c], ext>>[2] = Stem[c]
      BY DEF SharedNames
    <3> QED
      BY <1>4, <3>1 DEF BeginConversion
  <2>2. UNCHANGED dcOda
    BY <1>4 DEF BeginConversion, dcServers
  <2>3. \A n \in SharedNames : dcShared'[n] # NoDoc => dcShared'[n] = dcShared[n] \/ OwnFile(n)'
    BY <1>1, <1>3, <2>1
  <2> QED
    BY <1>1, <2>2, <2>3, OwnKeeps
<1>5. ASSUME NEW c \in Conversions, Clean(c) PROVE OwnInv'
  <2>1. UNCHANGED dcOda
    BY <1>5 DEF Clean, dcServers
  <2>2. \A n \in SharedNames : dcShared'[n] # NoDoc => dcShared'[n] = dcShared[n]
    BY <1>1, <1>5, NamesDiffer DEF Clean
  <2> QED
    BY <1>1, <2>1, <2>2, OwnKeeps
<1>6. ASSUME OdaAccept PROVE OwnInv'
  <2>1. /\ dcQueue # <<>> /\ dcQueue \in Seq(Conversions) /\ UNCHANGED dcShared
        /\ \/ UNCHANGED dcOda
           \/ /\ dcOda' = [for |-> Head(dcQueue), stage |-> "running",
                           holds |-> dcShared[InputName(Head(dcQueue))]]
              /\ dcShared[InputName(Head(dcQueue))] # NoDoc
    BY <1>1, <1>6 DEF OdaAccept, dcFiles, ShapeInv
  <2>2. PICK c \in Conversions : c = Head(dcQueue)
    BY <2>1, QueueShrinks
  <2>3. /\ InputName(c) \in SharedNames /\ InputName(c)[2] = Stem[c]
        /\ ProducedName(c) # InputName(c)
    BY NamesDiffer
  <2>4. dcShared[InputName(c)] # NoDoc => dcShared[InputName(c)] = Doc(c, TRUE)
    <3> SUFFICES ASSUME dcShared[InputName(c)] # NoDoc
                 PROVE  dcShared[InputName(c)] = Doc(c, TRUE)
      OBVIOUS
    <3>1. dcShared[InputName(c)].of = c /\ dcShared[InputName(c)].whole
      BY <2>3 DEF OwnInv, OwnFile
    <3>2. dcShared[InputName(c)] \in [of : Conversions, whole : BOOLEAN]
      BY <1>1, <2>3 DEF Docs
    <3> QED
      BY <3>1, <3>2 DEF Doc
  <2>5. dcOda'.stage # "idle" => dcOda'.holds = Doc(dcOda'.for, TRUE)
    <3>1. CASE UNCHANGED dcOda
      BY <1>1, <3>1
    <3>2. CASE /\ dcOda' = [for |-> c, stage |-> "running", holds |-> dcShared[InputName(c)]]
               /\ dcShared[InputName(c)] # NoDoc
      <4>1. dcOda'.for = c /\ dcOda'.holds = Doc(c, TRUE)
        BY <2>4, <3>2
      <4> QED
        BY <4>1
    <3> QED
      BY <2>1, <2>2, <3>1, <3>2
  <2>6. \A n \in SharedNames : dcShared'[n] # NoDoc => dcShared'[n] = dcShared[n] \/ OwnFile(n)'
    BY <2>1
  <2> QED
    BY <2>5, <2>6, OwnKeeps
<1>7. ASSUME OdaExits \/ OdaBreaks \/ OdaFinish PROVE OwnInv'
  <2>1. dcOda.stage # "idle"
    BY <1>7 DEF OdaExits, OdaBreaks, OdaFinish
  <2>2. PICK c \in Conversions : c = dcOda.for /\ AtOda(c)
    BY <2>1 DEF ServersInv, QueueInv, AtOda
  <2>3. /\ ~Queued(c) /\ Sent(c) /\ dcOda.holds = Doc(c, TRUE)
    BY <1>1, <2>1, <2>2 DEF ServersInv, QueueInv
  <2>4. /\ ProducedName(c) \in SharedNames /\ OutputName(c) \in SharedNames
        /\ ProducedName(c)[2] = Stem[c] /\ OutputName(c)[2] = Stem[c]
    BY NamesDiffer
  <2>5. CASE OdaExits
    <3>1. UNCHANGED dcShared \/ dcShared' = [dcShared EXCEPT ![ProducedName(c)] = Doc(c, TRUE)]
      BY <2>2, <2>3, <2>5 DEF OdaExits
    <3>2. dcOda'.for = dcOda.for /\ dcOda'.holds = dcOda.holds
      BY <1>1, <2>5 DEF OdaExits, ShapeInv
    <3>3. \A n \in SharedNames : dcShared'[n] # NoDoc => dcShared'[n] = dcShared[n] \/ OwnFile(n)'
      BY <1>1, <1>3, <2>4, <3>1
    <3> QED
      BY <2>2, <2>3, <3>2, <3>3, OwnKeeps
  <2>6. CASE OdaBreaks
    <3>1. /\ dcOda'.stage = "idle" /\ UNCHANGED dcQueue
          /\ UNCHANGED dcShared \/ dcShared' = [dcShared EXCEPT ![ProducedName(c)] = Doc(c, FALSE)]
      BY <2>2, <2>3, <2>6 DEF OdaBreaks, Idling, Doc
    <3>2. Sent(c)' /\ dcClient'[c].route = dcClient[c].route
      BY <2>3, CallsGoOn DEF Sent
    <3>3. Settled(c)' /\ ProducedName(c)' = ProducedName(c)
      BY <2>3, <3>1, <3>2 DEF Settled, Queued, AtOda, ProducedName, ExtOf
    <3>4. ASSUME dcShared'[ProducedName(c)] = Doc(c, FALSE)
          PROVE  \A n \in SharedNames : n = ProducedName(c) => OwnFile(n)'
      BY <2>4, <3>3, <3>4 DEF OwnFile, Distinct, Doc
    <3>5. \A n \in SharedNames : dcShared'[n] # NoDoc => dcShared'[n] = dcShared[n] \/ OwnFile(n)'
      BY <1>1, <2>4, <3>1, <3>4
    <3> QED
      BY <3>1, <3>5, OwnKeeps
  <2>7. CASE OdaFinish
    <3> DEFINE product == dcShared[ProducedName(c)]
    <3>1. /\ dcOda'.stage = "idle"
          /\ dcShared' = IF product = NoDoc THEN dcShared
                         ELSE [dcShared EXCEPT ![ProducedName(c)] = NoDoc,
                                               ![OutputName(c)] = product]
      BY <2>2, <2>7 DEF OdaFinish, Idling
    <3>2. product # NoDoc => product = Doc(c, TRUE)
      <4> SUFFICES ASSUME product # NoDoc PROVE product = Doc(c, TRUE)
        OBVIOUS
      <4>1. product.of = c /\ product.whole
        BY <2>2, <2>4 DEF OwnInv, OwnFile, Settled
      <4>2. product \in [of : Conversions, whole : BOOLEAN]
        BY <1>1, <2>4 DEF Docs
      <4> HIDE DEF product
      <4> QED
        BY <4>1, <4>2 DEF Doc
    <3> HIDE DEF product
    <3>3. \A n \in SharedNames : \/ dcShared'[n] \in {dcShared[n], NoDoc}
                                 \/ n = OutputName(c) /\ dcShared'[n] = Doc(c, TRUE)
      BY <1>1, <2>4, <3>1, <3>2
    <3>4. \A n \in SharedNames : dcShared'[n] # NoDoc => dcShared'[n] = dcShared[n] \/ OwnFile(n)'
      BY <1>3, <2>4, <3>3
    <3> QED
      BY <3>1, <3>4, OwnKeeps
  <2> QED
    BY <1>7, <2>5, <2>6, <2>7
<1>8. ASSUME NEW c \in Conversions, SendRequest(c) \/ GiveUp(c) \/ Receive(c) \/ LocalConvert(c)
                                    \/ OfficeConvert(c) \/ PdfRefuses(c)
      PROVE  UNCHANGED <<dcShared, dcOda>>
  BY <1>8 DEF SendRequest, GiveUp, Receive, LocalConvert, OfficeConvert, PdfRefuses, dcFiles,
     dcServers
<1>9. ASSUME PdfStep \/ FirstPdfStep \/ PdfLate \/ UNCHANGED dcVars
      PROVE  UNCHANGED <<dcShared, dcOda>>
  BY <1>9 DEF PdfStep, PdfStart, PdfDrives, PdfFinds, PdfPolls, PdfAnswers, PdfGoesOn, PdfLate,
     FirstPdfStep, FirstPdfWrites, FirstPdfExits, dcVars, dcFiles
<1>10. ASSUME OrphanWrites PROVE OwnInv'
  <2>1. PICK o \in dcOrphans :
          \/ dcShared' = [dcShared EXCEPT ![ProducedName(o.for)] = Doc(o.holds.of, FALSE)]
          \/ dcShared' = [dcShared EXCEPT ![ProducedName(o.for)] = o.holds]
    BY <1>10 DEF OrphanWrites
  <2>2. PICK c \in Conversions : c = o.for /\ Settled(c) /\ o.holds = Doc(c, TRUE)
    BY DEF OrphansInv, OrphansOwn
  <2>3. Doc(o.holds.of, FALSE) = Doc(c, FALSE)
    BY <2>2 DEF Doc
  <2>4. Settled(c)' /\ ProducedName(c)' = ProducedName(c)
    BY <2>2, SettledStays
  <2>5. ProducedName(c) \in SharedNames /\ ProducedName(c)[2] = Stem[c]
    BY NamesDiffer
  <2>6. ASSUME NEW whole \in BOOLEAN, dcShared'[ProducedName(c)] = Doc(c, whole)
        PROVE  \A n \in SharedNames : n = ProducedName(c) => OwnFile(n)'
    BY <2>4, <2>5, <2>6 DEF OwnFile, Distinct, Doc
  <2>7. \E whole \in BOOLEAN : dcShared' = [dcShared EXCEPT ![ProducedName(c)] = Doc(c, whole)]
    BY <2>1, <2>2, <2>3
  <2>8. \A n \in SharedNames : dcShared'[n] # NoDoc => dcShared'[n] = dcShared[n] \/ OwnFile(n)'
    BY <1>1, <2>5, <2>6, <2>7
  <2>9. dcOda'.stage # "idle" => dcOda'.holds = Doc(dcOda'.for, TRUE)
    BY <1>1, <1>10 DEF OrphanWrites, dcServers
  <2> QED
    BY <2>8, <2>9, OwnKeeps
<1>11. OrphansOwn'
  <2> SUFFICES ASSUME NEW o \in dcOrphans' PROVE o.holds = Doc(o.for, TRUE)
    BY DEF OrphansOwn, Doc
  <2>1. CASE o \in dcOrphans
    BY <2>1 DEF OrphansOwn
  <2>2. CASE o \notin dcOrphans
    <3>1. OdaBreaks /\ o.for = dcOda.for /\ o.holds = dcOda.holds
      BY <2>2, OrphansCome
    <3>2. dcOda.stage # "idle"
      BY <3>1 DEF OdaBreaks
    <3> QED
      BY <1>1, <3>1, <3>2
  <2> QED
    BY <2>1, <2>2
<1> QED
  BY <1>2, <1>4, <1>5, <1>6, <1>7, <1>8, <1>9, <1>10, <1>11 DEF ConversionNext, ClientStep, OdaStep

\* Calls whose documents have different names never get each other's documents,
\* and only a call that gave up or a converter that broke leaves a file on the
\* shared volume (oda_converter_service.py, oda-converter/, first_pdf_converter/),
\* for any calls, names, sizes and routes.
THEOREM KeptApart == ConversionSpec => []ConversionsKeptApart
<1>1. ConversionInit => LeftInv /\ OwnInv /\ OrphansOwn
  BY DEF ConversionInit, LeftInv, OwnInv, OwnGot, OrphansOwn, Idling
<1>2. ServersInv /\ LeftInv => LeftoversExplained
  <2> SUFFICES ASSUME ServersInv, LeftInv, NEW n \in SharedNames, dcShared[n] # NoDoc,
                      \A c \in Conversions : Stem[c] = n[2] =>
                          dcClient[c].stage \in {"idle", "ended"} /\ dcOda.for # c
               PROVE  \E c \in dcBroken : Stem[c] = n[2]
    BY DEF LeftoversExplained
  <2>1. Explained(n)
    BY DEF LeftInv
  <2>2. ASSUME NEW c \in Conversions, Working(c), n \in {InputName(c), OutputName(c)}
        PROVE  FALSE
    BY <2>2, NamesDiffer DEF Working
  <2>3. ASSUME dcOda.stage = "exited", n = ProducedName(dcOda.for) PROVE FALSE
    <3>1. dcOda.for \in Conversions
      BY <2>3 DEF ServersInv, QueueInv
    <3> QED
      BY <2>3, <3>1, NamesDiffer
  <2> QED
    BY <2>1, <2>2, <2>3 DEF Explained
<1>3. OwnInv => OwnDrawingReturned
  BY DEF OwnInv, OwnGot, OwnDrawingReturned, Volume
<1>4. CASE Distinct
  <2>1. LeftoversExplained /\ OwnInv => ConversionsKeptApart
    BY <1>3 DEF ConversionsKeptApart
  <2>2. ServersInv /\ OrphansInv /\ OrphansOwn /\ OwnInv /\ [ConversionNext]_dcVars
            => OwnInv' /\ OrphansOwn'
    BY <1>4, OwnInductive
  <2> QED
    BY ServersInit, ServersInductive, LeftInductive, <1>1, <1>2, <2>1, <2>2, PTL DEF ConversionSpec
<1>5. CASE ~Distinct
  <2>1. LeftoversExplained => ConversionsKeptApart
    BY <1>5 DEF ConversionsKeptApart, Distinct
  <2> QED
    BY ServersInit, ServersInductive, LeftInductive, <1>1, <1>2, <2>1, PTL DEF ConversionSpec
<1> QED
  BY <1>4, <1>5
=============================================================================
