------------------------- MODULE ShareIndex_proofs --------------------------
(***************************************************************************)
(* The share index for any files, any capacity of the channel and any      *)
(* number of changes: its types, the promise that a stale row is on the    *)
(* way to being put right, and that it implements FreshIndex.              *)
(***************************************************************************)
EXTENDS ShareIndex, FiniteSetTheorems, SequenceTheorems, TLAPS

(***************************************************************************)
(* The inductive invariant.  StaleIsPending is not inductive: an event for *)
(* a path is worth something only if processing it will not be skipped.    *)
(***************************************************************************)

\* Processing e makes the row of p describe its file, if that holds c.
Fixes(e, p, c) == e.path = p /\ e.kind # IF c = NoHash THEN "upsert" ELSE "vanished"

FixWaits(s, p, c) == \E i \in DOMAIN s : Fixes(s[i], p, c)

Covered(p) ==
  \/ p \in missed \/ saturation \/ turn \in {"walk", "dead"}
  \/ FixWaits(channel, p, root[p]) \/ FixWaits(work, p, root[p])

InHand(p) == readings # << >> /\ readings[1].path = p

\* What the row of p says once the reading in hand has been written.
Due(p) == IF InHand(p) THEN readings[1].found ELSE Served(p)

Promise == \A p \in Paths : Due(p) = root[p] \/ Covered(p)

Shape ==
  /\ readings # << >> => turn = "batch"
  /\ turn \notin {"batch", "debounce"} => work = << >>

Recent ==
  /\ \A p \in Paths : root[p] \in recent[p]
  /\ readings # << >> => readings[1].found \in recent[readings[1].path]

IndexInv == IndexTypeOK /\ Shape /\ Recent /\ Promise

ChannelEvent == [path : Paths, kind : {"upsert", "remove"}]
WorkEvent    == [path : Paths, kind : {"upsert", "remove", "vanished"}]
Reading      == [path : Paths, found : Maybe]

-----------------------------------------------------------------------------
(* Sequences *)

\* SetToSeq of a finite set is a sequence of its elements, and of all of them.
LEMMA SetToSeqLists ==
  ASSUME NEW S, IsFiniteSet(S)
  PROVE  /\ SetToSeq(S) \in Seq(S)
         /\ \A x \in S : \E i \in DOMAIN SetToSeq(S) : SetToSeq(S)[i] = x
<1> DEFINE n == Cardinality(S)
           f == SetToSeq(S)
<1>1. n \in Nat /\ ExistsBijection(1..n, S)
  BY FS_CardinalityType
<1>2. \E g \in [1..n -> S] : IsInjective(g)
  BY <1>1 DEF ExistsBijection, Bijection, Injection
<1>3. f \in [1..n -> S] /\ IsInjective(f)
  BY <1>2 DEF SetToSeq
<1>4. f \in Injection(1..n, S)
  BY <1>3 DEF Injection
<1>5. Cardinality(1..n) = n
  BY <1>1, FS_Interval
<1>6. f \in Surjection(1..n, S)
  BY <1>4, <1>5, FS_Injection
<1>7. f \in Seq(S)
  BY <1>1, <1>3
<1> QED
  BY <1>3, <1>6, <1>7 DEF Surjection

\* The events made for a set of paths are finitely many.
LEMMA EventsFinite ==
  ASSUME NEW S \in SUBSET Paths, NEW k
  PROVE  IsFiniteSet({Event(p, k) : p \in S})
<1> DEFINE T == {Event(p, k) : p \in S}
           f == [p \in S |-> Event(p, k)]
<1>1. f \in Surjection(S, T)
  BY DEF Surjection
<1>2. IsFiniteSet(S)
  BY FS_Subset, IndexAssumption
<1> QED
  BY <1>1, <1>2, FS_Surjection

LEMMA EventsAreWork ==
  ASSUME NEW S \in SUBSET Paths, NEW k \in {"upsert", "remove", "vanished"}
  PROVE  {Event(p, k) : p \in S} \subseteq WorkEvent
<1>1. \A p \in S : Event(p, k) \in WorkEvent
  BY DEF Event, WorkEvent
<1> QED
  BY <1>1

\* Something that waits in a sequence waits in every extension of it.
LEMMA WaitsInConcat ==
  ASSUME NEW S, NEW s \in Seq(S), NEW t \in Seq(S), NEW p, NEW c,
         FixWaits(s, p, c) \/ FixWaits(t, p, c)
  PROVE  FixWaits(s \o t, p, c)
<1>1. CASE FixWaits(s, p, c)
  <2>1. PICK i \in DOMAIN s : Fixes(s[i], p, c)
    BY <1>1 DEF FixWaits
  <2>2. i \in DOMAIN (s \o t) /\ (s \o t)[i] = s[i]
    BY <2>1
  <2> QED
    BY <2>1, <2>2 DEF FixWaits
<1>2. CASE FixWaits(t, p, c)
  <2>1. PICK i \in DOMAIN t : Fixes(t[i], p, c)
    BY <1>2 DEF FixWaits
  <2>2. Len(s) + i \in DOMAIN (s \o t) /\ (s \o t)[Len(s) + i] = t[i]
    BY <2>1
  <2> QED
    BY <2>1, <2>2 DEF FixWaits
<1> QED
  BY <1>1, <1>2

\* What waits in a sequence is its head or waits in its tail.
LEMMA WaitsInTail ==
  ASSUME NEW S, NEW s \in Seq(S), s # << >>, NEW p, NEW c, FixWaits(s, p, c)
  PROVE  Fixes(Head(s), p, c) \/ FixWaits(Tail(s), p, c)
<1>1. PICK i \in DOMAIN s : Fixes(s[i], p, c)
  BY DEF FixWaits
<1>2. CASE i = 1
  BY <1>1, <1>2
<1>3. CASE i # 1
  <2>1. i - 1 \in DOMAIN Tail(s) /\ Tail(s)[i - 1] = s[i]
    BY <1>1, <1>3
  <2> QED
    BY <1>1, <2>1 DEF FixWaits
<1> QED
  BY <1>2, <1>3

\* try_send keeps what is in the channel and its capacity; the first event is in
\* the channel afterwards or the flag is up.
LEMMA SendKeeps ==
  ASSUME IndexTypeOK, NEW events \in Seq(ChannelEvent), events # << >>, Send(events)
  PROVE  /\ channel' \in Seq(ChannelEvent) /\ Len(channel') <= ChannelCap
         /\ saturation' \in BOOLEAN /\ (saturation => saturation')
         /\ \E t \in Seq(ChannelEvent) :
              /\ channel' = channel \o t
              /\ saturation' \/ (t # << >> /\ t[1] = events[1])
<1> DEFINE room == IF turn = "dead" THEN 0 ELSE ChannelCap - Len(channel)
           fit  == IF Len(events) < room THEN Len(events) ELSE room
           t    == SubSeq(events, 1, fit)
<1>1. /\ channel \in Seq(ChannelEvent) /\ Len(channel) <= ChannelCap
      /\ saturation \in BOOLEAN /\ ChannelCap \in Nat
  BY IndexAssumption DEF IndexTypeOK, ChannelEvent
<1>2. Len(events) \in Nat \ {0} /\ Len(channel) \in Nat
  BY <1>1, EmptySeq, LenProperties
<1>3. room \in Nat /\ fit \in Nat /\ fit <= room /\ fit <= Len(events)
  BY <1>1, <1>2
<1>4. \A i \in 1..fit : events[i] \in ChannelEvent
  BY <1>2, <1>3, ElementOfSeq
<1>5. /\ t \in Seq(ChannelEvent) /\ Len(t) = fit
      /\ \A i \in 1..fit : t[i] = events[i]
  <2>1. /\ t \in Seq(ChannelEvent)
        /\ Len(t) = IF 1 <= fit THEN fit - 1 + 1 ELSE 0
        /\ \A i \in 1..(fit - 1 + 1) : t[i] = events[1 + i - 1]
    BY <1>3, <1>4, SubSeqProperties
  <2> QED
    BY <2>1, <1>3
<1>6. channel' = channel \o t /\ saturation' = (saturation \/ fit < Len(events))
  BY DEF Send
<1>7. /\ channel' \in Seq(ChannelEvent)
      /\ Len(channel') = Len(channel) + fit
  BY <1>1, <1>5, <1>6, ConcatProperties
<1>8. Len(channel') <= ChannelCap
  <2>1. CASE turn = "dead"
    BY <1>1, <1>2, <1>3, <1>7, <2>1
  <2>2. CASE turn # "dead"
    BY <1>1, <1>2, <1>3, <1>7, <2>2
  <2> QED
    BY <2>1, <2>2
<1>9. saturation' \/ (t # << >> /\ t[1] = events[1])
  <2>1. CASE fit = 0
    <3>1. fit < Len(events)
      BY <1>2, <2>1
    <3> HIDE DEF fit, t
    <3> QED
      BY <1>6, <3>1
  <2>2. CASE fit # 0
    BY <1>3, <1>5, <2>2
  <2> QED
    BY <2>1, <2>2
<1> QED
  BY <1>1, <1>5, <1>6, <1>7, <1>8, <1>9

-----------------------------------------------------------------------------
(* Files *)

\* A path an event of which was offered to the channel is covered afterwards.
LEMMA SendAnnounces ==
  ASSUME IndexTypeOK, NEW events \in Seq(ChannelEvent), events # << >>, Send(events),
         NEW p, NEW c, Fixes(events[1], p, c)
  PROVE  saturation' \/ FixWaits(channel', p, c)
<1>1. PICK t \in Seq(ChannelEvent) :
        channel' = channel \o t /\ (saturation' \/ (t # << >> /\ t[1] = events[1]))
  BY SendKeeps
<1>2. CASE t # << >> /\ t[1] = events[1]
  <2>1. FixWaits(t, p, c)
    <3>1. 1 \in DOMAIN t
      BY <1>2
    <3> QED
      BY <1>2, <3>1 DEF FixWaits
  <2>2. channel \in Seq(ChannelEvent)
    BY DEF IndexTypeOK, ChannelEvent
  <2> QED
    BY <1>1, <2>1, <2>2, WaitsInConcat
<1> QED
  BY <1>1, <1>2

\* What every change of the files does, whichever it is.
FilesEffect ==
  /\ root' \in [Paths -> Maybe]
  /\ recent' = [p \in Paths |-> recent[p] \cup {root'[p]}]
  /\ changes' \in 0..MaxChanges
  /\ missed' \subseteq Paths /\ missed \subseteq missed'
  /\ channel' \in Seq(ChannelEvent) /\ Len(channel') <= ChannelCap
  /\ saturation' \in BOOLEAN /\ (saturation => saturation')
  /\ \E t \in Seq(ChannelEvent) : channel' = channel \o t
  /\ \A p \in Paths : \/ root'[p] = root[p] \/ p \in missed' \/ saturation'
                      \/ FixWaits(channel', p, root'[p])
  /\ UNCHANGED <<rows, legacy, turn, work, readings>>

LEMMA BecomeFilesTypes ==
  ASSUME IndexTypeOK, NEW now \in [Paths -> Maybe], BecomeFiles(now)
  PROVE  /\ root' = now /\ root' \in [Paths -> Maybe]
         /\ recent' = [p \in Paths |-> recent[p] \cup {root'[p]}]
         /\ changes' \in 0..MaxChanges
  BY IndexAssumption DEF BecomeFiles, Happens, IndexTypeOK

\* One file changes and its events are offered.
LEMMA OneFileEffect ==
  ASSUME IndexTypeOK, NEW q \in Paths, NEW v \in Maybe,
         NEW events \in Seq(ChannelEvent), events # << >>,
         BecomeFiles([root EXCEPT ![q] = v]), Send(events), Fixes(events[1], q, v),
         UNCHANGED <<rows, legacy, loopVars, missed>>
  PROVE  FilesEffect
<1>1. root \in [Paths -> Maybe] /\ missed \subseteq Paths
  BY DEF IndexTypeOK
<1>2. /\ root' = [root EXCEPT ![q] = v] /\ root' \in [Paths -> Maybe]
      /\ recent' = [p \in Paths |-> recent[p] \cup {root'[p]}]
      /\ changes' \in 0..MaxChanges
  BY <1>1, BecomeFilesTypes
<1>3. saturation' \/ FixWaits(channel', q, v)
  BY SendAnnounces
<1>4. \A p \in Paths : \/ root'[p] = root[p] \/ p \in missed' \/ saturation'
                       \/ FixWaits(channel', p, root'[p])
  BY <1>1, <1>2, <1>3
<1>5. /\ channel' \in Seq(ChannelEvent) /\ Len(channel') <= ChannelCap
      /\ saturation' \in BOOLEAN /\ (saturation => saturation')
      /\ \E t \in Seq(ChannelEvent) : channel' = channel \o t
  BY SendKeeps
<1> QED
  BY <1>1, <1>2, <1>4, <1>5 DEF FilesEffect, loopVars

LEMMA FilesStep ==
  ASSUME IndexTypeOK, Files
  PROVE  FilesEffect
<1>1. ASSUME NEW q \in Paths, RemoveFile(q)
      PROVE  FilesEffect
  <2>1. <<Event(q, "remove")>> \in Seq(ChannelEvent)
    BY DEF Event, ChannelEvent
  <2>2. Fixes(<<Event(q, "remove")>>[1], q, NoHash) /\ NoHash \in Maybe
    BY DEF Fixes, Event, Maybe
  <2> QED
    BY <1>1, <2>1, <2>2, OneFileEffect DEF RemoveFile
<1>2. ASSUME NEW q \in Paths, NEW v \in Contents, WriteFile(q, v)
      PROVE  FilesEffect
  <2>1. <<Event(q, "upsert")>> \in Seq(ChannelEvent)
    BY DEF Event, ChannelEvent
  <2>2. Fixes(<<Event(q, "upsert")>>[1], q, v) /\ v \in Maybe
    BY IndexAssumption DEF Fixes, Event, Maybe
  <2> QED
    BY <1>2, <2>1, <2>2, OneFileEffect DEF WriteFile
<1>3. ASSUME NEW q \in Paths, NEW v \in Contents, ReplaceFile(q, v)
      PROVE  FilesEffect
  <2>1. <<Event(q, "remove"), Event(q, "upsert")>> \in Seq(ChannelEvent)
    BY DEF Event, ChannelEvent
  <2>2. Fixes(<<Event(q, "remove"), Event(q, "upsert")>>[1], q, v) /\ v \in Maybe
    BY IndexAssumption DEF Fixes, Event, Maybe
  <2> QED
    BY <1>3, <2>1, <2>2, OneFileEffect DEF ReplaceFile
<1>4. ASSUME MoveDirectory
      PROVE  FilesEffect
  <2> DEFINE now == [p \in Paths |-> IF p \in Moved THEN NoHash ELSE root[p]]
  <2>1. /\ root \in [Paths -> Maybe] /\ missed \subseteq Paths /\ saturation \in BOOLEAN
        /\ channel \in Seq(ChannelEvent) /\ Len(channel) <= ChannelCap
    BY DEF IndexTypeOK, ChannelEvent
  <2>2. now \in [Paths -> Maybe]
    BY <2>1 DEF Maybe
  <2>3. BecomeFiles(now)
    BY <1>4 DEF MoveDirectory
  <2>4. /\ root' = now /\ root' \in [Paths -> Maybe]
        /\ recent' = [p \in Paths |-> recent[p] \cup {root'[p]}]
        /\ changes' \in 0..MaxChanges
    BY <2>2, <2>3, BecomeFilesTypes
  <2>5. /\ missed' = missed \cup {p \in Moved : root[p] # NoHash}
        /\ UNCHANGED <<rows, legacy, channel, saturation, turn, work, readings>>
    BY <1>4 DEF MoveDirectory, queueVars, loopVars
  <2>6. \A p \in Paths : root'[p] = root[p] \/ p \in missed'
    BY <2>4, <2>5
  <2>7. channel' = channel \o << >> /\ << >> \in Seq(ChannelEvent)
    BY <2>1, <2>5, ConcatEmptySeq
  <2>8. missed' \subseteq Paths /\ missed \subseteq missed'
    BY <2>1, <2>5, IndexAssumption
  <2> QED
    BY <2>1, <2>4, <2>5, <2>6, <2>7, <2>8 DEF FilesEffect
<1> QED
  BY <1>1, <1>2, <1>3, <1>4 DEF Files

-----------------------------------------------------------------------------
(* Every step keeps the invariant *)

LEMMA FilesKeep ==
  ASSUME IndexInv, Files
  PROVE  IndexInv'
<1>1. IndexTypeOK /\ Shape /\ Recent /\ Promise
  BY DEF IndexInv
<1>2. FilesEffect
  BY <1>1, FilesStep
<1>3. /\ root \in [Paths -> Maybe] /\ recent \in [Paths -> SUBSET Maybe]
      /\ channel \in Seq(ChannelEvent)
  BY <1>1 DEF IndexTypeOK, ChannelEvent
<1>4. IndexTypeOK'
  <2>1. recent' \in [Paths -> SUBSET Maybe]
    BY <1>2, <1>3 DEF FilesEffect
  <2> QED
    BY <1>1, <1>2, <2>1 DEF IndexTypeOK, FilesEffect, ChannelEvent
<1>5. Shape'
  BY <1>1, <1>2 DEF Shape, FilesEffect
<1>6. Recent'
  <2>1. readings # << >> => readings[1].path \in Paths
    BY <1>1 DEF IndexTypeOK
  <2> QED
    BY <1>1, <1>2, <1>3, <2>1 DEF Recent, FilesEffect
<1>7. Promise'
  <2> SUFFICES ASSUME NEW p \in Paths
               PROVE  Due(p)' = root'[p] \/ Covered(p)'
    BY DEF Promise
  <2>1. Due(p)' = Due(p)
    BY <1>2 DEF Due, InHand, Served, FilesEffect
  <2>2. CASE root'[p] = root[p]
    <3>1. PICK t \in Seq(ChannelEvent) : channel' = channel \o t
      BY <1>2 DEF FilesEffect
    <3>2. FixWaits(channel, p, root[p]) => FixWaits(channel', p, root'[p])
      BY <1>3, <2>2, <3>1, WaitsInConcat
    <3> QED
      BY <1>1, <1>2, <2>1, <2>2, <3>2 DEF Promise, Covered, FilesEffect
  <2>3. CASE root'[p] # root[p]
    BY <1>2, <2>3 DEF FilesEffect, Covered
  <2> QED
    BY <2>2, <2>3
<1> QED
  BY <1>4, <1>5, <1>6, <1>7 DEF IndexInv

LEMMA CheckSaturationKeeps ==
  ASSUME IndexInv, CheckSaturation
  PROVE  IndexInv'
<1> USE DEF CheckSaturation, fileVars
<1>1. IndexTypeOK'
  BY DEF IndexInv, IndexTypeOK
<1>2. Shape' /\ Recent'
  BY DEF IndexInv, Shape, Recent
<1>3. Promise'
  BY DEF IndexInv, Promise, Covered, Due, InHand, Served
<1> QED
  BY <1>1, <1>2, <1>3 DEF IndexInv

LEMMA ReceiveFirstKeeps ==
  ASSUME IndexInv, ReceiveFirst
  PROVE  IndexInv'
<1> USE DEF ReceiveFirst, fileVars
<1>1. /\ channel \in Seq(ChannelEvent) /\ channel # << >> /\ Len(channel) <= ChannelCap
      /\ ChannelCap \in Nat
  BY IndexAssumption DEF IndexInv, IndexTypeOK, ChannelEvent
<1>2. /\ Head(channel) \in ChannelEvent /\ Tail(channel) \in Seq(ChannelEvent)
      /\ Len(Tail(channel)) <= ChannelCap
  BY <1>1
<1>3. <<Head(channel)>> \in Seq(WorkEvent)
  BY <1>2 DEF ChannelEvent, WorkEvent
<1>4. IndexTypeOK'
  BY <1>2, <1>3 DEF IndexInv, IndexTypeOK, ChannelEvent, WorkEvent
<1>5. Shape' /\ Recent'
  BY DEF IndexInv, Shape, Recent
<1>6. Promise'
  <2> SUFFICES ASSUME NEW p \in Paths
               PROVE  Due(p)' = root'[p] \/ Covered(p)'
    BY DEF Promise
  <2>1. ~FixWaits(work, p, root[p])
    BY DEF IndexInv, Shape, FixWaits
  <2>2. FixWaits(channel, p, root[p]) =>
          FixWaits(work', p, root'[p]) \/ FixWaits(channel', p, root'[p])
    <3>1. Fixes(Head(channel), p, root[p]) => FixWaits(<<Head(channel)>>, p, root[p])
      BY DEF FixWaits
    <3> QED
      BY <1>1, <3>1, WaitsInTail
  <2> QED
    BY <2>1, <2>2 DEF IndexInv, Promise, Covered, Due, InHand, Served
<1> QED
  BY <1>4, <1>5, <1>6 DEF IndexInv

LEMMA ReceiveTimeoutKeeps ==
  ASSUME IndexInv, ReceiveTimeout
  PROVE  IndexInv'
<1> USE DEF ReceiveTimeout, fileVars, queueVars
<1>1. IndexTypeOK' /\ Shape' /\ Recent'
  BY DEF IndexInv, IndexTypeOK, Shape, Recent
<1>2. Promise'
  BY DEF IndexInv, Promise, Covered, Due, InHand, Served
<1> QED
  BY <1>1, <1>2 DEF IndexInv

LEMMA DrainBatchKeeps ==
  ASSUME IndexInv, DrainBatch
  PROVE  IndexInv'
<1> USE DEF DrainBatch, fileVars
<1>1. channel \in Seq(WorkEvent) /\ work \in Seq(WorkEvent)
  <2>1. channel \in Seq(ChannelEvent) /\ work \in Seq(WorkEvent)
    BY DEF IndexInv, IndexTypeOK, ChannelEvent, WorkEvent
  <2>2. ChannelEvent \subseteq WorkEvent
    BY DEF ChannelEvent, WorkEvent
  <2> QED
    BY <2>1, <2>2
<1>2. work \o channel \in Seq(WorkEvent)
  BY <1>1
<1>3. << >> \in Seq(ChannelEvent) /\ Len(<< >>) <= ChannelCap
  BY IndexAssumption
<1>4. IndexTypeOK'
  BY <1>2, <1>3 DEF IndexInv, IndexTypeOK, ChannelEvent, WorkEvent
<1>5. Shape' /\ Recent'
  BY DEF IndexInv, Shape, Recent
<1>6. Promise'
  <2> SUFFICES ASSUME NEW p \in Paths
               PROVE  Due(p)' = root'[p] \/ Covered(p)'
    BY DEF Promise
  <2>1. FixWaits(channel, p, root[p]) \/ FixWaits(work, p, root[p])
          => FixWaits(work', p, root'[p])
    BY <1>1, WaitsInConcat
  <2> QED
    BY <2>1 DEF IndexInv, Promise, Covered, Due, InHand, Served
<1> QED
  BY <1>4, <1>5, <1>6 DEF IndexInv

LEMMA ReadFileKeeps ==
  ASSUME IndexInv, ReadFile
  PROVE  IndexInv'
<1> DEFINE e     == Head(work)
           leave == \/ e.kind = "upsert" /\ root[e.path] = NoHash
                    \/ e.kind = "vanished" /\ root[e.path] # NoHash
<1>1. /\ work \in Seq(WorkEvent) /\ work # << >> /\ root \in [Paths -> Maybe]
      /\ readings = << >> /\ turn = "batch"
  BY DEF IndexInv, IndexTypeOK, ReadFile, CanWrite, WorkEvent
<1>2. /\ work' = Tail(work)
      /\ readings' = IF leave THEN << >> ELSE <<[path |-> e.path, found |-> root[e.path]]>>
      /\ UNCHANGED <<root, recent, missed, changes, rows, legacy, channel, saturation, turn>>
  BY DEF ReadFile, Found, fileVars, queueVars
<1>3. e \in WorkEvent /\ Tail(work) \in Seq(WorkEvent)
  BY <1>1
<1>4. e.path \in Paths
  BY <1>3 DEF WorkEvent
<1>5. readings' \in {<< >>} \cup {<<r>> : r \in Reading}
  BY <1>1, <1>2, <1>4 DEF Reading
<1> HIDE DEF leave
<1>6. IndexTypeOK'
  BY <1>2, <1>3, <1>5 DEF IndexInv, IndexTypeOK, WorkEvent, Reading
<1>7. Shape'
  BY <1>1, <1>2 DEF Shape
<1>8. Recent'
  BY <1>2, <1>4 DEF IndexInv, Recent
<1>9. Promise'
  <2> SUFFICES ASSUME NEW p \in Paths
               PROVE  Due(p)' = root'[p] \/ Covered(p)'
    BY DEF Promise
  <2>1. FixWaits(work, p, root[p]) => Fixes(e, p, root[p]) \/ FixWaits(work', p, root'[p])
    BY <1>1, <1>2, WaitsInTail
  <2>2. Due(p) = Served(p) /\ Served(p)' = Served(p)
    BY <1>1, <1>2 DEF Due, InHand, Served
  <2>3. CASE leave
    <3>1. ~Fixes(e, p, root[p])
      BY <2>3 DEF leave, Fixes
    <3>2. Due(p)' = Served(p)
      BY <1>2, <2>2, <2>3 DEF Due, InHand
    <3> QED
      BY <1>2, <2>1, <2>2, <3>1, <3>2 DEF IndexInv, Promise, Covered
  <2>4. CASE ~leave /\ e.path = p
    BY <1>2, <2>4 DEF Due, InHand
  <2>5. CASE ~leave /\ e.path # p
    <3>1. ~Fixes(e, p, root[p])
      BY <2>5 DEF Fixes
    <3>2. Due(p)' = Served(p)
      BY <1>2, <2>2, <2>5 DEF Due, InHand
    <3> QED
      BY <1>2, <2>1, <2>2, <3>1, <3>2 DEF IndexInv, Promise, Covered
  <2> QED
    BY <2>3, <2>4, <2>5
<1> QED
  BY <1>6, <1>7, <1>8, <1>9 DEF IndexInv

\* The row of a reading is one of its contents, and is served as that content.
LEMMA WriteRowEffect ==
  ASSUME IndexInv, WriteRow
  PROVE  LET r == readings[1]
         IN  /\ readings # << >> /\ r \in Reading
             /\ r.found \in recent[r.path]
             /\ rows' = [rows EXCEPT ![r.path] = IF r.found = NoHash THEN Deleted ELSE r.found]
             /\ recent' = [recent EXCEPT ![r.path] = {root[r.path]}]
             /\ missed' = IF r.found = root[r.path] THEN missed \ {r.path} ELSE missed
             /\ readings' = << >>
             /\ UNCHANGED <<root, changes, legacy, channel, saturation, turn, work>>
             /\ \A p \in Paths : Served(p)' = IF p = r.path THEN r.found ELSE Served(p)
<1> DEFINE r == readings[1]
<1>1. readings # << >> /\ r \in Reading /\ rows \in [Paths -> Maybe \cup {Deleted}]
  BY DEF WriteRow, IndexInv, IndexTypeOK, Reading
<1>2. Head(readings) = r
  BY <1>1
<1>3. /\ rows' = [rows EXCEPT ![r.path] = IF r.found = NoHash THEN Deleted ELSE r.found]
      /\ recent' = [recent EXCEPT ![r.path] = {root[r.path]}]
      /\ missed' = IF r.found = root[r.path] THEN missed \ {r.path} ELSE missed
      /\ readings' = << >>
      /\ UNCHANGED <<root, changes, legacy, channel, saturation, turn, work>>
  BY <1>2 DEF WriteRow, queueVars
<1>4. r.path \in Paths /\ r.found \in Maybe
  BY <1>1 DEF Reading
<1> HIDE DEF r
<1>5. \A p \in Paths : Served(p)' = IF p = r.path THEN r.found ELSE Served(p)
  BY <1>1, <1>3, <1>4, IndexAssumption DEF Served, Maybe
<1>6. r.found \in recent[r.path]
  BY <1>1 DEF IndexInv, Recent, r
<1> QED
  BY <1>1, <1>3, <1>5, <1>6 DEF r

LEMMA WriteRowKeeps ==
  ASSUME IndexInv, WriteRow
  PROVE  IndexInv'
<1> DEFINE r == readings[1]
<1>1. /\ readings # << >> /\ r \in Reading
      /\ rows' = [rows EXCEPT ![r.path] = IF r.found = NoHash THEN Deleted ELSE r.found]
      /\ recent' = [recent EXCEPT ![r.path] = {root[r.path]}]
      /\ missed' = IF r.found = root[r.path] THEN missed \ {r.path} ELSE missed
      /\ readings' = << >>
      /\ UNCHANGED <<root, changes, legacy, channel, saturation, turn, work>>
      /\ \A p \in Paths : Served(p)' = IF p = r.path THEN r.found ELSE Served(p)
  BY WriteRowEffect
<1>2. r.path \in Paths /\ r.found \in Maybe
  BY <1>1 DEF Reading
<1>3. IndexTypeOK'
  <2>1. /\ rows' \in [Paths -> Maybe \cup {Deleted}] /\ recent' \in [Paths -> SUBSET Maybe]
        /\ missed' \subseteq Paths
    BY <1>1, <1>2 DEF IndexInv, IndexTypeOK
  <2> QED
    BY <1>1, <2>1 DEF IndexInv, IndexTypeOK
<1>4. Shape'
  BY <1>1 DEF IndexInv, Shape
<1>5. Recent'
  <2>1. recent \in [Paths -> SUBSET Maybe]
    BY DEF IndexInv, IndexTypeOK
  <2> QED
    BY <1>1, <1>2, <2>1 DEF IndexInv, Recent
<1>6. Promise'
  <2> SUFFICES ASSUME NEW p \in Paths
               PROVE  Due(p)' = root'[p] \/ Covered(p)'
    BY DEF Promise
  <2>1. Due(p)' = Due(p)
    BY <1>1 DEF Due, InHand
  <2>2. p \in missed => p \in missed' \/ Due(p) = root[p]
    BY <1>1 DEF Due, InHand
  <2> QED
    BY <1>1, <2>1, <2>2 DEF IndexInv, Promise, Covered
<1> QED
  BY <1>3, <1>4, <1>5, <1>6 DEF IndexInv

LEMMA WriteRowFailsKeeps ==
  ASSUME IndexInv, WriteRowFails
  PROVE  IndexInv'
<1> DEFINE r == readings[1]
<1>1. readings # << >> /\ r \in Reading /\ r.path \in Paths
  BY DEF WriteRowFails, IndexInv, IndexTypeOK, Reading
<1>2. Head(readings) = r
  BY <1>1
<1>3. /\ missed' = missed \cup {r.path} /\ readings' = << >> /\ changes' \in 0..MaxChanges
      /\ UNCHANGED <<root, recent, rows, legacy, channel, saturation, turn, work>>
  BY <1>2, IndexAssumption DEF WriteRowFails, Happens, queueVars, IndexInv, IndexTypeOK
<1>4. IndexTypeOK'
  BY <1>1, <1>3 DEF IndexInv, IndexTypeOK
<1>5. Shape' /\ Recent'
  BY <1>3 DEF IndexInv, Shape, Recent
<1>6. Promise'
  <2> SUFFICES ASSUME NEW p \in Paths
               PROVE  Due(p)' = root'[p] \/ Covered(p)'
    BY DEF Promise
  <2>1. CASE p = r.path
    BY <1>3, <2>1 DEF Covered
  <2>2. CASE p # r.path
    <3>1. Due(p)' = Due(p)
      BY <1>3, <2>2 DEF Due, InHand, Served
    <3> QED
      BY <1>3, <3>1 DEF IndexInv, Promise, Covered
  <2> QED
    BY <2>1, <2>2
<1> QED
  BY <1>4, <1>5, <1>6 DEF IndexInv

LEMMA BatchDoneKeeps ==
  ASSUME IndexInv, BatchDone
  PROVE  IndexInv'
<1> USE DEF BatchDone, CanWrite, fileVars, queueVars
<1>1. IndexTypeOK' /\ Shape' /\ Recent'
  BY DEF IndexInv, IndexTypeOK, Shape, Recent
<1>2. Promise'
  BY DEF IndexInv, Promise, Covered, Due, InHand, Served
<1> QED
  BY <1>1, <1>2 DEF IndexInv

LEMMA ReconcileKeeps ==
  ASSUME IndexInv, Reconcile
  PROVE  IndexInv'
<1> DEFINE walked == {p \in Paths : root[p] # NoHash}
           there  == {Event(p, "upsert") : p \in walked}
           gone   == {Event(p, "vanished") : p \in Vanished(walked)}
<1>1. /\ work' = SetToSeq(there) \o SetToSeq(gone)
      /\ legacy' = Unshadowed /\ turn = "walk" /\ turn' = "batch"
      /\ UNCHANGED <<root, recent, missed, changes, rows, channel, saturation, readings>>
  BY DEF Reconcile, fileVars, queueVars
<1>2. walked \in SUBSET Paths /\ Vanished(walked) \in SUBSET Paths
  BY DEF Vanished
<1>3. IsFiniteSet(there) /\ IsFiniteSet(gone)
  BY <1>2, EventsFinite
<1>4. there \subseteq WorkEvent /\ gone \subseteq WorkEvent
  BY <1>2, EventsAreWork
<1>5. /\ SetToSeq(there) \in Seq(there)
      /\ \A x \in there : \E i \in DOMAIN SetToSeq(there) : SetToSeq(there)[i] = x
  BY <1>3, SetToSeqLists
<1>6. /\ SetToSeq(gone) \in Seq(gone)
      /\ \A x \in gone : \E i \in DOMAIN SetToSeq(gone) : SetToSeq(gone)[i] = x
  BY <1>3, SetToSeqLists
<1>7. SetToSeq(there) \in Seq(WorkEvent) /\ SetToSeq(gone) \in Seq(WorkEvent)
  <2> HIDE DEF there, gone
  <2> QED
    BY <1>4, <1>5, <1>6
<1>8. work' \in Seq(WorkEvent)
  <2> HIDE DEF there, gone
  <2> QED
    BY <1>1, <1>7
<1>9. readings = << >>
  BY <1>1 DEF IndexInv, Shape
<1>10. \A p \in walked : FixWaits(work', p, root'[p])
  <2> SUFFICES ASSUME NEW p \in walked
               PROVE  FixWaits(work', p, root'[p])
    OBVIOUS
  <2>1. Event(p, "upsert") \in there /\ Fixes(Event(p, "upsert"), p, root[p])
    BY DEF Fixes, Event
  <2>2. FixWaits(SetToSeq(there), p, root[p])
    BY <1>5, <2>1 DEF FixWaits
  <2> HIDE DEF there, gone
  <2> QED
    BY <1>1, <1>7, <2>2, WaitsInConcat
<1>11. \A p \in Vanished(walked) : FixWaits(work', p, root'[p])
  <2> SUFFICES ASSUME NEW p \in Vanished(walked)
               PROVE  FixWaits(work', p, root'[p])
    OBVIOUS
  <2>1. root[p] = NoHash
    BY DEF Vanished
  <2>2. Event(p, "vanished") \in gone /\ Fixes(Event(p, "vanished"), p, root[p])
    BY <2>1 DEF Fixes, Event
  <2>3. FixWaits(SetToSeq(gone), p, root[p])
    BY <1>6, <2>2 DEF FixWaits
  <2> HIDE DEF there, gone
  <2> QED
    BY <1>1, <1>7, <2>3, WaitsInConcat
<1>12. IndexTypeOK'
  <2> HIDE DEF walked, there, gone
  <2>1. legacy' \subseteq Paths
    BY <1>1 DEF IndexInv, IndexTypeOK, Unshadowed
  <2> QED
    BY <1>1, <1>8, <2>1 DEF IndexInv, IndexTypeOK, WorkEvent
<1>13. Shape' /\ Recent'
  BY <1>1, <1>9 DEF IndexInv, Shape, Recent
<1>14. Promise'
  <2> SUFFICES ASSUME NEW p \in Paths
               PROVE  Due(p)' = root'[p] \/ Covered(p)'
    BY DEF Promise
  <2>1. Due(p)' = Served(p) /\ root'[p] = root[p]
    BY <1>1, <1>9 DEF Due, InHand, Served
  <2>2. CASE root[p] # NoHash
    BY <1>10, <2>2 DEF Covered
  <2>3. CASE root[p] = NoHash /\ Served(p) # NoHash
    BY <1>11, <2>3 DEF Covered, Served, Vanished
  <2>4. CASE root[p] = NoHash /\ Served(p) = NoHash
    BY <2>1, <2>4
  <2> QED
    BY <2>2, <2>3, <2>4
<1> QED
  BY <1>12, <1>13, <1>14 DEF IndexInv

LEMMA ReconcileFailsKeeps ==
  ASSUME IndexInv, ReconcileFails
  PROVE  IndexInv'
<1>1. << >> \in Seq(ChannelEvent) /\ Len(<< >>) <= ChannelCap
  BY IndexAssumption
<1>2. IndexTypeOK'
  BY <1>1, IndexAssumption
     DEF IndexInv, IndexTypeOK, ReconcileFails, Happens, ChannelEvent
<1>3. Shape' /\ Recent'
  BY DEF IndexInv, Shape, Recent, ReconcileFails
<1>4. Promise'
  BY DEF Promise, Covered, ReconcileFails
<1> QED
  BY <1>2, <1>3, <1>4 DEF IndexInv

LEMMA RestartIndexKeeps ==
  ASSUME IndexInv, RestartIndex
  PROVE  IndexInv'
<1>1. << >> \in Seq(ChannelEvent) /\ Len(<< >>) <= ChannelCap /\ << >> \in Seq(WorkEvent)
  BY IndexAssumption
<1>2. IndexTypeOK'
  BY <1>1, IndexAssumption
     DEF IndexInv, IndexTypeOK, RestartIndex, Happens, ChannelEvent, WorkEvent
<1>3. Shape' /\ Recent'
  BY DEF IndexInv, Shape, Recent, RestartIndex
<1>4. Promise'
  BY DEF Promise, Covered, RestartIndex
<1> QED
  BY <1>2, <1>3, <1>4 DEF IndexInv

LEMMA StutterKeeps ==
  ASSUME IndexInv, UNCHANGED indexVars
  PROVE  IndexInv'
<1> USE DEF indexVars, fileVars, queueVars, loopVars
<1>1. IndexTypeOK' /\ Shape' /\ Recent'
  BY DEF IndexInv, IndexTypeOK, Shape, Recent
<1>2. Promise'
  BY DEF IndexInv, Promise, Covered, Due, InHand, Served
<1> QED
  BY <1>1, <1>2 DEF IndexInv

LEMMA InitInv ==
  ASSUME IndexInit
  PROVE  IndexInv
<1>1. << >> \in Seq(ChannelEvent) /\ Len(<< >>) <= ChannelCap /\ << >> \in Seq(WorkEvent)
  BY IndexAssumption
<1>2. IndexTypeOK
  BY <1>1, IndexAssumption DEF IndexInit, IndexTypeOK, ChannelEvent, WorkEvent
<1>3. Shape /\ Recent /\ Promise
  BY DEF IndexInit, Shape, Recent, Promise, Covered
<1> QED
  BY <1>2, <1>3 DEF IndexInv

\* The invariant of the index holds in every state of it.
THEOREM IndexInvariant == IndexSpec => []IndexInv
<1>1. IndexInit => IndexInv
  BY InitInv
<1>2. IndexInv /\ [IndexNext]_indexVars => IndexInv'
  BY FilesKeep, CheckSaturationKeeps, ReceiveFirstKeeps, ReceiveTimeoutKeeps,
     DrainBatchKeeps, ReadFileKeeps, WriteRowKeeps, WriteRowFailsKeeps, BatchDoneKeeps,
     ReconcileKeeps, ReconcileFailsKeeps, RestartIndexKeeps, StutterKeeps
     DEF IndexNext, LoopStep
<1> QED
  BY <1>1, <1>2, PTL DEF IndexSpec

\* For any paths, any capacity and any number of changes the state of the index
\* has its types; the channel of try_send never holds more than its capacity.
THEOREM IndexTypeCorrect == IndexSpec => []IndexTypeOK
<1>1. IndexInv => IndexTypeOK
  BY DEF IndexInv
<1> QED
  BY <1>1, IndexInvariant, PTL

\* However many events are dropped, wherever the loop is between reading a file
\* and writing its row, and after any restart: a row that does not describe its
\* file is on the way to being put right.
THEOREM StaleRowsArePending == IndexSpec => []StaleIsPending
<1>1. ASSUME IndexInv
      PROVE  StaleIsPending
  <2> SUFFICES ASSUME NEW p \in Paths
               PROVE  \/ Aligned(p) \/ p \in missed \/ saturation \/ turn \in {"walk", "dead"}
                      \/ Mentions(channel, p) \/ Mentions(work, p) \/ Mentions(readings, p)
    BY DEF StaleIsPending
  <2>1. Due(p) = root[p] \/ Covered(p)
    BY <1>1 DEF IndexInv, Promise
  <2>2. CASE Covered(p)
    BY <2>2 DEF Covered, FixWaits, Fixes, Mentions
  <2>3. CASE InHand(p)
    <3>1. 1 \in DOMAIN readings
      BY <1>1, <2>3 DEF InHand, IndexInv, IndexTypeOK
    <3> QED
      BY <2>3, <3>1 DEF InHand, Mentions
  <2>4. CASE Due(p) = root[p] /\ ~InHand(p)
    BY <2>4 DEF Due, Aligned
  <2> QED
    BY <2>1, <2>2, <2>3, <2>4
<1> QED
  BY <1>1, IndexInvariant, PTL

-----------------------------------------------------------------------------
(* The index implements FreshIndex *)

\* The entries of the abstract index.
Entry == [p \in Paths |-> Served(p)]

LEMMA FreshInitial ==
  ASSUME IndexInit
  PROVE  Fresh!FreshInit
<1>1. \A p \in Paths : Served(p) \in Maybe
  BY IndexAssumption DEF IndexInit, Served, Maybe
<1>2. Entry \in [Paths -> Maybe]
  BY <1>1 DEF Entry
<1> QED
  BY <1>2 DEF IndexInit, Fresh!FreshInit, Fresh!Maybe, Maybe, Entry

\* A step that leaves files, rows and history alone is none of the abstract index.
LEMMA FreshStutters ==
  ASSUME UNCHANGED <<root, rows, recent>>
  PROVE  UNCHANGED Fresh!freshVars
<1>1. \A p \in Paths : Served(p)' = Served(p)
  BY DEF Served
<1> QED
  BY <1>1 DEF Fresh!freshVars

LEMMA FreshFiles ==
  ASSUME IndexInv, Files
  PROVE  Fresh!Move
<1>1. FilesEffect
  BY FilesStep DEF IndexInv
<1>2. \A p \in Paths : Served(p)' = Served(p)
  BY <1>1 DEF FilesEffect, Served
<1> QED
  BY <1>1, <1>2 DEF FilesEffect, Fresh!Move, Fresh!Maybe, Maybe

LEMMA FreshWrite ==
  ASSUME IndexInv, WriteRow
  PROVE  \E p \in Paths : Fresh!Refresh(p)
<1> DEFINE r == readings[1]
<1>1. /\ readings # << >> /\ r \in Reading /\ r.found \in recent[r.path]
      /\ recent' = [recent EXCEPT ![r.path] = {root[r.path]}] /\ root' = root
      /\ \A p \in Paths : Served(p)' = IF p = r.path THEN r.found ELSE Served(p)
  BY WriteRowEffect
<1>2. r.path \in Paths
  BY <1>1 DEF Reading
<1> HIDE DEF r
<1>3. Entry' = [Entry EXCEPT ![r.path] = r.found]
  BY <1>1, <1>2 DEF Entry
<1>4. Fresh!Refresh(r.path)
  BY <1>1, <1>3 DEF Fresh!Refresh, Entry
<1> QED
  BY <1>2, <1>4

\* The index implements FreshIndex, for any files and any number of changes: a
\* row is only ever set to something its file has held since the row was last
\* set, although a file is read and its row written in two steps.
THEOREM IndexImplementsFresh == IndexSpec => IndexIsFresh
<1>1. IndexInit => Fresh!FreshInit
  BY FreshInitial
<1>2. IndexInv /\ [IndexNext]_indexVars => [Fresh!FreshNext]_(Fresh!freshVars)
  <2> SUFFICES ASSUME IndexInv, [IndexNext]_indexVars
               PROVE  [Fresh!FreshNext]_(Fresh!freshVars)
    OBVIOUS
  <2>1. CASE Files
    BY <2>1, FreshFiles DEF Fresh!FreshNext
  <2>2. CASE WriteRow
    BY <2>2, FreshWrite DEF Fresh!FreshNext
  <2>3. CASE ~Files /\ ~WriteRow
    <3>1. UNCHANGED <<root, rows, recent>>
      BY <2>3 DEF IndexNext, LoopStep, indexVars, fileVars, queueVars, CheckSaturation,
         ReceiveFirst, ReceiveTimeout, DrainBatch, ReadFile, BatchDone, Reconcile,
         WriteRowFails, ReconcileFails, RestartIndex
    <3> QED
      BY <3>1, FreshStutters
  <2> QED
    BY <2>1, <2>2, <2>3
<1> QED
  BY <1>1, <1>2, IndexInvariant, PTL DEF IndexSpec, IndexIsFresh, Fresh!FreshSpec
=============================================================================
