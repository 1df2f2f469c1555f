-------------------------- MODULE ChannelStoreProofs --------------------------
(***************************************************************************)
(* Proofs about ChannelStore, for any frames, any size of the cache and    *)
(* any number of handlers under way.                                       *)
(***************************************************************************)
EXTENDS ChannelStore, FiniteSetTheorems, SequenceTheorems, TLAPS

-----------------------------------------------------------------------------
(* Sequences and maps *)

(* The sequence r has one element less than s, and nothing that s has not. *)
OneLess(r, s, S) ==
    /\ r \in Seq(S)
    /\ Len(r) = Len(s) - 1
    /\ \A j \in 1..Len(r) : \E k \in 1..Len(s) : r[j] = s[k]

LEMMA RemoveAtProperties ==
    ASSUME NEW S, NEW s \in Seq(S), NEW i \in 1..Len(s)
    PROVE  OneLess(RemoveAt(s, i), s, S)
<1> DEFINE before == SubSeq(s, 1, i-1)
           after == SubSeq(s, i+1, Len(s))
<1>1. before \in Seq(S) /\ Len(before) = i - 1 /\ \A j \in 1..Len(before) : before[j] = s[j]
  OBVIOUS
<1>2. /\ after \in Seq(S) /\ Len(after) = Len(s) - i
      /\ \A j \in 1..Len(after) : after[j] = s[i + j]
  OBVIOUS
<1>3. RemoveAt(s, i) = before \o after
  BY DEF RemoveAt
<1> HIDE DEF before, after
<1>4. before \o after \in Seq(S) /\ Len(before \o after) = Len(s) - 1
  BY <1>1, <1>2
<1>5. ASSUME NEW j \in 1..Len(before \o after)
      PROVE  \E k \in 1..Len(s) : (before \o after)[j] = s[k]
  <2>1. CASE j <= i - 1
    <3>1. (before \o after)[j] = s[j] /\ j \in 1..Len(s)
      BY <1>1, <1>2, <2>1
    <3> QED BY <3>1
  <2>2. CASE j > i - 1
    <3>1. (before \o after)[j] = after[j - (i - 1)] /\ j - (i - 1) \in 1..Len(after)
      BY <1>1, <1>2, <1>4, <1>5, <2>2
    <3>2. after[j - (i - 1)] = s[j + 1] /\ j + 1 \in 1..Len(s)
      BY <1>2, <1>4, <1>5, <3>1
    <3> QED BY <3>1, <3>2
  <2> QED
    BY <1>4, <1>5, <2>1, <2>2
<1> QED
  BY <1>3, <1>4, <1>5 DEF OneLess

LEMMA WithProperties ==
    ASSUME NEW f, NEW x, NEW y
    PROVE  /\ DOMAIN With(f, x, y) = DOMAIN f \cup {x}
           /\ With(f, x, y)[x] = y
           /\ \A z \in DOMAIN f \ {x} : With(f, x, y)[z] = f[z]
  BY DEF With

-----------------------------------------------------------------------------
(* The replay cache *)

(* What CacheOK says, and that the queue has no id twice. *)
CacheInv(c, S) ==
    /\ c = [seen |-> c.seen, queue |-> c.queue]
    /\ c.queue \in Seq(S)
    /\ IsFiniteSet(c.seen)
    /\ CacheOK(c)
    /\ \A i, j \in 1..Len(c.queue) : c.queue[i] = c.queue[j] => i = j

LEMMA EmptyCacheOK == ASSUME NEW S PROVE CacheInv(EmptyCache, S)
  BY FS_EmptySet, CacheAssumption DEF CacheInv, CacheOK, EmptyCache

(* A new id goes to the end of the queue; the queue moves up when it is    *)
(* full, and the id that leaves it is forgotten.                           *)
LEMMA CacheAddProperties ==
    ASSUME NEW S, NEW c, CacheInv(c, S), NEW id \in S, ~CacheHas(c, id)
    PROVE  LET d == CacheAdd(c, id)
           IN  /\ CacheInv(d, S)
               /\ CacheHas(d, id)
               /\ d.queue[Len(d.queue)] = id /\ Len(d.queue) > 0
               /\ \/ /\ Len(d.queue) = Len(c.queue) + 1
                     /\ \A p \in 1..Len(c.queue) : d.queue[p] = c.queue[p]
                     /\ d.seen = c.seen \cup {id}
                  \/ /\ Len(c.queue) = CacheMax /\ Len(d.queue) = CacheMax
                     /\ \A p \in 1..CacheMax - 1 : d.queue[p] = c.queue[p + 1]
                     /\ d.seen = (c.seen \cup {id}) \ {c.queue[1]}
<1> DEFINE q == Append(c.queue, id)
<1>1. /\ c.queue \in Seq(S) /\ Len(c.queue) \in Nat /\ CacheMax \in Nat \ {0}
      /\ Len(c.queue) <= CacheMax
  BY CacheAssumption DEF CacheInv, CacheOK
<1>2. /\ q \in Seq(S) /\ Len(q) = Len(c.queue) + 1 /\ q[Len(c.queue) + 1] = id
      /\ \A p \in 1..Len(c.queue) : q[p] = c.queue[p]
  BY <1>1
<1>3. \A p \in 1..Len(c.queue) : c.queue[p] \in c.seen
  BY DEF CacheInv, CacheOK
<1>4. \A i, j \in 1..Len(q) : q[i] = q[j] => i = j
  BY <1>1, <1>2, <1>3 DEF CacheHas, CacheInv
<1>5. c.seen \cup {id} = {q[i] : i \in 1..Len(q)}
  <2>1. \A p \in 1..Len(q) : p \in 1..Len(c.queue) \/ p = Len(c.queue) + 1
    BY <1>1, <1>2
  <2>2. \A p \in 1..Len(c.queue) : p \in 1..Len(q)
    BY <1>1, <1>2
  <2>3. Len(c.queue) + 1 \in 1..Len(q)
    BY <1>1, <1>2
  <2>4. c.seen = {c.queue[i] : i \in 1..Len(c.queue)}
    BY DEF CacheInv, CacheOK
  <2> HIDE DEF q
  <2> QED BY <1>2, <2>1, <2>2, <2>3, <2>4
<1>6. /\ IsFiniteSet(c.seen \cup {id})
      /\ Cardinality(c.seen \cup {id}) = Len(q)
  <2>1. IsFiniteSet(c.seen) /\ Cardinality(c.seen) = Len(c.queue) /\ id \notin c.seen
    BY DEF CacheHas, CacheInv, CacheOK
  <2>2. /\ IsFiniteSet(c.seen \cup {id})
        /\ Cardinality(c.seen \cup {id}) = Cardinality(c.seen) + 1
    BY <2>1, FS_AddElement
  <2> QED BY <1>2, <2>1, <2>2
<1>7. CASE Len(q) <= CacheMax
  <2>1. CacheAdd(c, id) = [seen |-> c.seen \cup {id}, queue |-> q]
    BY <1>1, <1>2, <1>7 DEF CacheAdd
  <2>2. CacheInv([seen |-> c.seen \cup {id}, queue |-> q], S)
    BY <1>2, <1>4, <1>5, <1>6, <1>7 DEF CacheInv, CacheOK
  <2> HIDE DEF q
  <2> QED
    BY <1>1, <1>2, <2>1, <2>2 DEF CacheHas
<1>8. CASE Len(q) > CacheMax
  <2> DEFINE r == Tail(q)
             seen == (c.seen \cup {id}) \ {Head(q)}
  <2>1. CacheAdd(c, id) = [seen |-> seen, queue |-> r]
    BY <1>8 DEF CacheAdd
  <2>2. Len(c.queue) = CacheMax /\ Len(q) = CacheMax + 1
    BY <1>1, <1>2, <1>8
  <2>3. Head(q) = q[1] /\ q[1] = c.queue[1]
    BY <1>1, <1>2, <2>2
  <2>4. r \in Seq(S) /\ Len(r) = CacheMax /\ \A p \in 1..CacheMax : r[p] = q[p + 1]
    <3> HIDE DEF q
    <3> QED BY <1>1, <1>2, <2>2
  <2>5. r[CacheMax] = id /\ \A p \in 1..CacheMax - 1 : r[p] = c.queue[p + 1]
    BY <1>1, <1>2, <2>2, <2>4
  <2>6. seen = {r[i] : i \in 1..Len(r)}
    <3>1. \A p \in 1..Len(q) : p = 1 \/ (p - 1 \in 1..Len(r) /\ q[p] = r[p - 1])
      <4> HIDE DEF r, q
      <4> QED BY <1>1, <2>2, <2>4
    <3>2. \A p \in 1..Len(r) : p + 1 \in 1..Len(q) /\ r[p] = q[p + 1] /\ p + 1 # 1
      <4> HIDE DEF r, q
      <4> QED BY <1>1, <2>2, <2>4
    <3>3. 1 \in 1..Len(q)
      BY <1>1, <2>2
    <3>4. \A p, o \in 1..Len(q) : q[p] = q[o] => p = o
      BY <1>4
    <3>5. c.seen \cup {id} = {q[p] : p \in 1..Len(q)} /\ Head(q) = q[1]
      BY <1>5, <2>3
    <3> HIDE DEF r, q
    <3>6. ASSUME NEW x \in seen PROVE \E p \in 1..Len(r) : x = r[p]
      <4>1. x \in c.seen \cup {id} /\ x # Head(q)
        BY <3>6
      <4>2. PICK p \in 1..Len(q) : x = q[p]
        BY <3>5, <4>1
      <4> QED BY <3>1, <3>5, <4>1, <4>2
    <3>7. ASSUME NEW p \in 1..Len(r) PROVE r[p] \in seen
      <4>1. p + 1 \in 1..Len(q) /\ r[p] = q[p + 1] /\ q[p + 1] # q[1]
        BY <3>2, <3>3, <3>4, <3>7
      <4> QED BY <3>5, <4>1
    <3> DEFINE values == {r[i] : i \in 1..Len(r)}
    <3>8. (\A x \in seen : x \in values) /\ (\A x \in values : x \in seen)
      BY <3>6, <3>7
    <3> HIDE DEF seen, values
    <3>9. seen = values
      BY <3>8
    <3> QED BY <3>9 DEF values
  <2>7. IsFiniteSet(seen) /\ Cardinality(seen) = CacheMax
    <3>1. Head(q) \in c.seen \cup {id}
      BY <1>1, <1>3, <2>2, <2>3
    <3> HIDE DEF q
    <3>2. /\ IsFiniteSet(seen)
          /\ Cardinality(seen) = Cardinality(c.seen \cup {id}) - 1
      BY <1>6, <3>1, FS_RemoveElement
    <3> HIDE DEF seen
    <3> QED BY <1>1, <1>6, <2>2, <3>2
  <2>8. \A i, j \in 1..Len(r) : r[i] = r[j] => i = j
    <3> HIDE DEF r, q
    <3> QED BY <1>1, <1>4, <2>2, <2>4
  <2>9. CacheInv([seen |-> seen, queue |-> r], S)
    <3> HIDE DEF r, q, seen
    <3> QED BY <1>1, <2>4, <2>6, <2>7, <2>8 DEF CacheInv, CacheOK
  <2>10. id \in seen
    <3>1. CacheMax \in 1..Len(r)
      BY <1>1, <2>4
    <3> HIDE DEF r, seen
    <3> QED BY <2>5, <2>6, <3>1
  <2>11. seen = (c.seen \cup {id}) \ {c.queue[1]}
    BY <2>3
  <2> HIDE DEF r, q, seen
  <2> QED
    BY <1>1, <2>1, <2>2, <2>4, <2>5, <2>9, <2>10, <2>11 DEF CacheHas
<1> QED
  BY <1>1, <1>2, <1>7, <1>8
-----------------------------------------------------------------------------
(* Types, and what a step does to the timeline, the cache and the runs *)

Mids == {f.mid : f \in Frames}

Texts == {f.plain.text : f \in Frames} \cup Placeholders \cup {RawJson}

Nicks == {f.plain.nick : f \in Frames} \cup {None}

Fps == {fpOf(f.plain.pk) : f \in Frames} \cup {None}

Entries == [text : Texts, mid : Mids, from : {f.from : f \in Frames}, status : Statuses,
            nick : Nicks, fp : Fps, epoch : Nat, startedAt : Nat, startedAfter : Nat,
            place : Nat, addedAs : Nat]

Tasks == [f : Frames, stage : {"decrypt", "verify", "import"}, key : Keys,
          epoch : Nat, shown : Nat, adds : Nat]

ImportsHaveKeys ==
    \A i \in 1..Len(tasks) : tasks[i].stage = "import" => tasks[i].f.plain.k # None

TypeInv ==
    /\ crypto \in Keys
    /\ CacheInv(replayCache, Mids)
    /\ messages \in Seq(Entries)
    /\ shown = Len(messages)
    /\ tasks \in Seq(Tasks)
    /\ \A i \in 1..Len(tasks) : tasks[i].f.envelope
    /\ ImportsHaveKeys
    /\ delivered \in 0..MaxDeliveries
    /\ Len(tasks) <= delivered
    /\ adds \in Nat
    /\ epoch \in Nat

(* e is an entry that the run t writes now. *)
EntryOf(e, t) ==
    /\ e.mid = t.f.mid /\ e.from = t.f.from
    /\ e.epoch = t.epoch /\ e.startedAt = t.shown /\ e.startedAfter = t.adds
    /\ e.place = shown + 1
    /\ e.addedAs = IF CacheHas(replayCache, t.f.mid) THEN 0 ELSE adds + 1

New == (1..Len(messages')) \ (1..Len(messages))

(* The timeline is only ever extended. *)
AppendsFor(t) ==
    /\ messages' \in Seq(Entries)
    /\ Len(messages) <= Len(messages')
    /\ \A n \in 1..Len(messages) : messages'[n] = messages[n]
    /\ \A n \in New : EntryOf(messages'[n], t)
    /\ shown' = Len(messages')

NoContents == \A n \in New : messages'[n].text \in Placeholders

OneContent == \A n \in New : n = Len(messages) + 1 \/ messages'[n].text \in Placeholders

SameRun(s, t) == s.f = t.f /\ s.epoch = t.epoch /\ s.shown = t.shown /\ s.adds = t.adds

RunsGoOn ==
    /\ tasks' \in Seq(Tasks)
    /\ Len(tasks') <= Len(tasks)
    /\ \A j \in 1..Len(tasks') : \E k \in 1..Len(tasks) : SameRun(tasks'[j], tasks[k])
    /\ ImportsHaveKeys'

CacheCleared ==
    /\ epoch' = epoch + 1
    /\ \/ replayCache' = EmptyCache /\ adds' = adds
       \/ \E m \in Mids : replayCache' = CacheAdd(EmptyCache, m) /\ adds' = adds + 1

LEMMA EndTaskRuns ==
    ASSUME TypeInv, NEW i \in 1..Len(tasks), EndTask(i)
    PROVE  RunsGoOn
<1>1. tasks \in Seq(Tasks) /\ tasks' = RemoveAt(tasks, i)
  BY DEF EndTask, TypeInv
<1> DEFINE rest == RemoveAt(tasks, i)
<1>2. /\ rest \in Seq(Tasks) /\ Len(rest) = Len(tasks) - 1
      /\ \A j \in 1..Len(rest) : \E k \in 1..Len(tasks) : rest[j] = tasks[k]
  <2>1. OneLess(RemoveAt(tasks, i), tasks, Tasks)
    BY <1>1, RemoveAtProperties
  <2> QED
    BY <2>1 DEF OneLess
<1> HIDE DEF rest
<1>3. \A j \in 1..Len(rest) : \E k \in 1..Len(tasks) : SameRun(rest[j], tasks[k])
  BY <1>2 DEF SameRun
<1>4. Len(rest) <= Len(tasks)
  BY <1>1, <1>2
<1>5. tasks' = rest
  BY <1>1 DEF rest
<1>6. ImportsHaveKeys'
  BY <1>2, <1>5 DEF TypeInv, ImportsHaveKeys
<1> QED
  BY <1>2, <1>3, <1>4, <1>5, <1>6 DEF RunsGoOn

LEMMA AwaitRuns ==
    ASSUME TypeInv, NEW i \in 1..Len(tasks), NEW stage \in {"verify", "import"}, Await(i, stage),
           stage = "import" => tasks[i].f.plain.k # None
    PROVE  RunsGoOn
<1>1. tasks \in Seq(Tasks) /\ tasks[i] \in Tasks
  BY DEF TypeInv
<1>2. tasks' = [tasks EXCEPT ![i] = [tasks[i] EXCEPT !.stage = stage]]
  BY <1>1 DEF Await
<1>3. [tasks[i] EXCEPT !.stage = stage] \in Tasks /\ SameRun([tasks[i] EXCEPT !.stage = stage], tasks[i])
  BY <1>1 DEF Tasks, SameRun
<1>4. tasks' \in Seq(Tasks) /\ Len(tasks') = Len(tasks)
  BY <1>1, <1>2, <1>3
<1>5. \A j \in 1..Len(tasks') : SameRun(tasks'[j], tasks[j])
  BY <1>1, <1>2, <1>3, <1>4 DEF SameRun
<1>6. ImportsHaveKeys'
  <2> SUFFICES ASSUME NEW j \in 1..Len(tasks'), tasks'[j].stage = "import"
               PROVE  tasks'[j].f.plain.k # None
    BY DEF ImportsHaveKeys
  <2>1. j \in 1..Len(tasks) /\ tasks'[j].f = tasks[j].f
    BY <1>4, <1>5 DEF SameRun
  <2>2. CASE j = i
    <3>1. tasks'[i].stage = stage
      BY <1>1, <1>2 DEF Tasks
    <3> QED BY <2>1, <2>2, <3>1
  <2>3. CASE j # i
    BY <1>1, <1>2, <2>1, <2>3 DEF TypeInv, ImportsHaveKeys
  <2> QED
    BY <2>2, <2>3
<1> QED
  BY <1>1, <1>4, <1>5, <1>6 DEF RunsGoOn

LEMMA EntryProperties ==
    ASSUME TypeInv, NEW t \in Tasks, NEW text \in Texts, NEW status \in Statuses,
           NEW nick \in Nicks, NEW fp \in Fps
    PROVE  LET e == Entry(t, text, status, nick, fp)
           IN  /\ e \in Entries /\ EntryOf(e, t)
               /\ e.text = text /\ e.status = status /\ e.nick = nick /\ e.fp = fp
<1>1. shown \in Nat /\ adds \in Nat
  BY DEF TypeInv
<1>2. t.f.mid \in Mids /\ t.f.from \in {f.from : f \in Frames}
  BY DEF Tasks, Mids
<1>3. t.epoch \in Nat /\ t.shown \in Nat /\ t.adds \in Nat
  BY DEF Tasks
<1> QED
  BY <1>1, <1>2, <1>3 DEF Entry, Entries, EntryOf

LEMMA ShowAllAppends ==
    ASSUME TypeInv, NEW t, NEW es \in Seq(Entries),
           \A n \in 1..Len(es) : EntryOf(es[n], t), ShowAll(es)
    PROVE  /\ AppendsFor(t)
           /\ Len(messages') = Len(messages) + Len(es)
           /\ \A n \in New : n - Len(messages) \in 1..Len(es)
                             /\ messages'[n] = es[n - Len(messages)]
<1>1. messages \in Seq(Entries) /\ shown = Len(messages) /\ Len(messages) \in Nat /\ Len(es) \in Nat
  BY DEF TypeInv
<1>2. messages' = messages \o es /\ shown' = shown + Len(es)
  BY DEF ShowAll
<1>3. /\ messages' \in Seq(Entries) /\ Len(messages') = Len(messages) + Len(es)
      /\ \A n \in 1..Len(messages) : messages'[n] = messages[n]
  BY <1>1, <1>2
<1>4. ASSUME NEW n \in New
      PROVE  n - Len(messages) \in 1..Len(es) /\ messages'[n] = es[n - Len(messages)]
  <2>1. n \in Int /\ n > Len(messages) /\ n <= Len(messages) + Len(es)
    BY <1>1, <1>3 DEF New
  <2> QED
    BY <1>1, <1>2, <2>1
<1>5. \A n \in New : EntryOf(messages'[n], t)
  BY <1>4
<1>6. Len(messages) <= Len(messages') /\ shown' = Len(messages')
  BY <1>1, <1>2, <1>3
<1> QED
  BY <1>3, <1>4, <1>5, <1>6 DEF AppendsFor

LEMMA ShowAppends ==
    ASSUME TypeInv, NEW t, NEW e \in Entries, EntryOf(e, t), Show(e)
    PROVE  /\ AppendsFor(t) /\ OneContent
           /\ New = {Len(messages) + 1} /\ messages'[Len(messages) + 1] = e
<1> DEFINE es == <<e>>
<1>1. es \in Seq(Entries) /\ Len(es) = 1 /\ es[1] = e
  OBVIOUS
<1>2. ShowAll(es)
  BY DEF Show
<1> HIDE DEF es
<1>6. \A n \in 1..Len(es) : EntryOf(es[n], t)
  BY <1>1
<1>3. Len(messages) \in Nat
  BY DEF TypeInv
<1>4. /\ AppendsFor(t) /\ Len(messages') = Len(messages) + 1
      /\ \A n \in New : n - Len(messages) \in 1..1 /\ messages'[n] = es[n - Len(messages)]
  BY <1>1, <1>2, <1>6, ShowAllAppends
<1>5. New = {Len(messages) + 1}
  BY <1>3, <1>4 DEF New
<1> QED
  BY <1>1, <1>3, <1>4, <1>5 DEF OneContent

LEMMA ShowNothingAppends ==
    ASSUME TypeInv, NEW t, ShowNothing
    PROVE  AppendsFor(t) /\ New = {} /\ NoContents /\ OneContent
<1>1. messages' = messages /\ shown' = shown /\ messages \in Seq(Entries) /\ shown = Len(messages)
  BY DEF ShowNothing, TypeInv
<1>2. New = {}
  BY <1>1 DEF New
<1> QED
  BY <1>1, <1>2 DEF AppendsFor, NoContents, OneContent

LEMMA RememberProperties ==
    ASSUME TypeInv, NEW m \in Mids, Remember(m)
    PROVE  CacheInv(replayCache, Mids)' /\ CacheHas(replayCache', m)
           /\ adds' \in Nat /\ epoch' \in Nat
<1>1. CASE CacheHas(replayCache, m)
  BY <1>1 DEF Remember, CacheAdd, TypeInv
<1>2. CASE ~CacheHas(replayCache, m)
  <2>1. CacheInv(CacheAdd(replayCache, m), Mids) /\ CacheHas(CacheAdd(replayCache, m), m)
    BY <1>2, CacheAddProperties DEF TypeInv
  <2>2. replayCache' = CacheAdd(replayCache, m)
    BY DEF Remember
  <2>3. CacheInv(replayCache, Mids)'
    BY <2>1, <2>2 DEF CacheInv, CacheOK
  <2> QED
    BY <1>2, <2>1, <2>2, <2>3 DEF Remember, TypeInv
<1> QED
  BY <1>1, <1>2
-----------------------------------------------------------------------------
(* Every resumed handler takes one of these steps. *)

StepKind(t) ==
    \/ Remember(t.f.mid) /\ OneContent
    \/ RememberNothing /\ NoContents
    \/ CacheCleared /\ NoContents

ResumeStep(t) ==
    RunsGoOn /\ AppendsFor(t) /\ StepKind(t) /\ crypto' \in Keys /\ delivered' = delivered

LEMMA TaskTypes ==
    ASSUME TypeInv, NEW i \in 1..Len(tasks)
    PROVE  /\ tasks[i] \in Tasks /\ tasks[i].f \in Frames /\ tasks[i].f.mid \in Mids
           /\ tasks[i].f.plain.text \in Texts /\ tasks[i].f.plain.nick \in Nicks
           /\ fpOf(tasks[i].f.plain.pk) \in Fps /\ crypto \in Keys
<1>1. tasks[i] \in Tasks /\ crypto \in Keys
  BY DEF TypeInv
<1>2. tasks[i].f \in Frames
  BY <1>1 DEF Tasks
<1> QED
  BY <1>1, <1>2 DEF Mids, Texts, Nicks, Fps

LEMMA Literals ==
    /\ Placeholders \subseteq Texts /\ RawJson \in Texts /\ None \in Nicks /\ None \in Fps
    /\ "invalid envelope" \in Placeholders /\ "decrypt failed" \in Placeholders
    /\ "invalid signature" \in Placeholders /\ "stale signature" \in Placeholders
    /\ "room name" \in Placeholders /\ "key rotation" \in Placeholders
    /\ "identity conflict" \in Placeholders
    /\ "unsigned" \in Statuses /\ "invalid" \in Statuses /\ "system" \in Statuses
  BY DEF Texts, Nicks, Fps, Placeholders, Statuses

LEMMA DecryptMessageSteps ==
    ASSUME TypeInv, NEW i \in 1..Len(tasks), DecryptMessage(i)
    PROVE  ResumeStep(tasks[i])
<1> DEFINE t == tasks[i]
           p == t.f.plain
           class == IF Decrypts(t) THEN MessageClass(p) ELSE "failed"
<1>1. class \in {"signed", "stale", "ignored", "raw", "failed"}
  BY DEF MessageClass
<1>2. t \in Tasks /\ p.text \in Texts /\ fpOf(p.pk) \in Fps /\ crypto' \in Keys /\ delivered' = delivered
  BY TaskTypes DEF DecryptMessage
<1>3. CASE class = "signed"
  <2>1. Await(i, "verify") /\ RememberNothing /\ ShowNothing
    BY <1>3 DEF DecryptMessage
  <2> QED
    BY <1>2, <2>1, AwaitRuns, ShowNothingAppends DEF ResumeStep, StepKind
<1>4. CASE class # "signed"
  <2>1. EndTask(i) /\ Remember(t.f.mid)
    BY <1>4 DEF DecryptMessage
  <2>2. \/ ShowNothing
        \/ \E text \in Texts, status \in Statuses, fp \in Fps :
              Show(Entry(t, text, status, None, fp))
    <3>1. CASE class = "stale"
      <4>1. Show(Entry(t, "stale signature", "invalid", None, fpOf(p.pk)))
        BY <3>1 DEF DecryptMessage
      <4> QED BY <1>2, <4>1, Literals
    <3>2. CASE class = "raw"
      <4>1. Show(Entry(t, AsItStands(p), "unsigned", None, None))
        BY <3>2 DEF DecryptMessage
      <4>2. AsItStands(p) \in Texts
        BY <1>2, Literals DEF AsItStands
      <4> QED BY <4>1, <4>2, Literals
    <3>3. CASE class = "failed"
      <4>1. Show(Entry(t, "decrypt failed", "unsigned", None, None))
        BY <3>3 DEF DecryptMessage
      <4> QED BY <4>1, Literals
    <3>4. CASE class = "ignored"
      BY <3>4 DEF DecryptMessage
    <3> QED
      BY <1>1, <1>4, <3>1, <3>2, <3>3, <3>4
  <2>3. CASE ShowNothing
    BY <1>2, <2>1, <2>3, EndTaskRuns, ShowNothingAppends DEF ResumeStep, StepKind
  <2>4. ASSUME NEW text \in Texts, NEW status \in Statuses, NEW fp \in Fps,
               Show(Entry(t, text, status, None, fp))
        PROVE  ResumeStep(t)
    <3>1. Entry(t, text, status, None, fp) \in Entries /\ EntryOf(Entry(t, text, status, None, fp), t)
      <4>1. None \in Nicks
        BY Literals
      <4> HIDE DEF t
      <4> QED BY <1>2, <4>1, EntryProperties
    <3>2. AppendsFor(t) /\ OneContent
      BY <2>4, <3>1, ShowAppends
    <3> QED
      BY <1>2, <2>1, <3>2, EndTaskRuns DEF ResumeStep, StepKind
  <2> QED
    BY <2>2, <2>3, <2>4
<1> QED
  BY <1>3, <1>4

LEMMA DecryptKeyUpdateSteps ==
    ASSUME TypeInv, NEW i \in 1..Len(tasks), DecryptKeyUpdate(i)
    PROVE  ResumeStep(tasks[i])
<1>1. RunsGoOn
  BY AwaitRuns, EndTaskRuns DEF DecryptKeyUpdate, unwrapNewKey
<1>2. ShowNothing /\ RememberNothing /\ crypto' = crypto /\ delivered' = delivered
  BY DEF DecryptKeyUpdate, ShowNothing, RememberNothing, ghostVars
<1> QED
  BY <1>1, <1>2, TaskTypes, ShowNothingAppends DEF ResumeStep, StepKind

LEMMA DecryptRoomNameSteps ==
    ASSUME TypeInv, NEW i \in 1..Len(tasks), DecryptRoomName(i)
    PROVE  ResumeStep(tasks[i])
<1> DEFINE t == tasks[i]
           e == Entry(t, "room name", "system", None, None)
<1>1. RunsGoOn /\ crypto' \in Keys /\ delivered' = delivered
  BY EndTaskRuns, TaskTypes DEF DecryptRoomName
<1>2. \/ Remember(t.f.mid) /\ (ShowNothing \/ Show(e))
      \/ RememberNothing /\ ShowNothing
  BY DEF DecryptRoomName
<1>3. e \in Entries /\ EntryOf(e, t)
  BY Literals, TaskTypes, EntryProperties
<1> HIDE DEF e
<1> QED
  BY <1>1, <1>2, <1>3, ShowNothingAppends, ShowAppends DEF ResumeStep, StepKind

LEMMA DecryptNickSteps ==
    ASSUME TypeInv, NEW i \in 1..Len(tasks), DecryptNick(i)
    PROVE  ResumeStep(tasks[i])
<1>1. RunsGoOn
  BY AwaitRuns, EndTaskRuns DEF DecryptNick
<1>2. ShowNothing /\ crypto' = crypto /\ delivered' = delivered
  BY DEF DecryptNick
<1>3. Remember(tasks[i].f.mid) \/ RememberNothing
  BY DEF DecryptNick
<1> QED
  BY <1>1, <1>2, <1>3, TaskTypes, ShowNothingAppends DEF ResumeStep, StepKind

(* The notice about a contested nick follows the entry it is about. *)
LEMMA ShowTwoAppends ==
    ASSUME TypeInv, NEW t, NEW e \in Entries, EntryOf(e, t), NEW d \in Entries, EntryOf(d, t),
           d.text \in Placeholders, ShowAll(<<e, d>>)
    PROVE  /\ AppendsFor(t) /\ OneContent
           /\ New = {Len(messages) + 1, Len(messages) + 2}
           /\ messages'[Len(messages) + 1] = e /\ messages'[Len(messages) + 2] = d
<1> DEFINE es == <<e, d>>
<1>1. es \in Seq(Entries) /\ Len(es) = 2 /\ es[1] = e /\ es[2] = d
  OBVIOUS
<1>2. ShowAll(es)
  OBVIOUS
<1> HIDE DEF es
<1>3. \A n \in 1..Len(es) : EntryOf(es[n], t)
  BY <1>1
<1>4. Len(messages) \in Nat
  BY DEF TypeInv
<1>5. /\ AppendsFor(t) /\ Len(messages') = Len(messages) + 2
      /\ \A n \in New : n - Len(messages) \in 1..2 /\ messages'[n] = es[n - Len(messages)]
  BY <1>1, <1>2, <1>3, ShowAllAppends
<1>6. New = {Len(messages) + 1, Len(messages) + 2}
  BY <1>4, <1>5 DEF New
<1>7. messages'[Len(messages) + 1] = es[1] /\ messages'[Len(messages) + 2] = es[2]
  <2>1. Len(messages) + 1 - Len(messages) = 1 /\ Len(messages) + 2 - Len(messages) = 2
    BY <1>4
  <2> QED
    BY <1>5, <1>6, <2>1
<1>8. OneContent
  BY <1>1, <1>6, <1>7 DEF OneContent
<1> QED
  BY <1>1, <1>5, <1>6, <1>7, <1>8

LEMMA VerifyMessageSteps ==
    ASSUME TypeInv, NEW i \in 1..Len(tasks), VerifyMessage(i)
    PROVE  ResumeStep(tasks[i])
<1> DEFINE t == tasks[i]
           p == t.f.plain
           fp == fpOf(p.pk)
           status == StatusOf(p.nick, fp)
           e == Entry(t, p.text, status, p.nick, fp)
           d == [e EXCEPT !.text = "identity conflict", !.status = "system"]
           bad == Entry(t, "invalid signature", "invalid", p.nick, fp)
<1>1. /\ RunsGoOn /\ Remember(t.f.mid) /\ crypto' \in Keys /\ delivered' = delivered
      /\ t \in Tasks /\ p.text \in Texts /\ p.nick \in Nicks /\ fp \in Fps
  BY EndTaskRuns, TaskTypes DEF VerifyMessage
<1>2. Show(e) \/ ShowAll(<<e, d>>) \/ Show(bad)
  BY DEF VerifyMessage
<1>3. status \in Statuses
  BY DEF StatusOf, Statuses
<1>4. e \in Entries /\ EntryOf(e, t)
  BY <1>1, <1>3, EntryProperties
<1>5. bad \in Entries /\ EntryOf(bad, t)
  <2>1. "invalid" \in Statuses /\ "invalid signature" \in Texts
    BY Literals
  <2> HIDE DEF t, p
  <2> QED BY <1>1, <2>1, EntryProperties
<1>6. d \in Entries /\ EntryOf(d, t) /\ d.text = "identity conflict"
  <2> HIDE DEF e
  <2> QED BY <1>4, Literals DEF Entries, EntryOf
<1> HIDE DEF e, d, bad
<1>7. AppendsFor(t) /\ OneContent
  <2>1. CASE Show(e)
    BY <1>4, <2>1, ShowAppends
  <2>2. CASE ShowAll(<<e, d>>)
    BY <1>4, <1>6, <2>2, Literals, ShowTwoAppends
  <2>3. CASE Show(bad)
    BY <1>5, <2>3, ShowAppends
  <2> QED
    BY <1>2, <2>1, <2>2, <2>3
<1> QED
  BY <1>1, <1>7 DEF ResumeStep, StepKind

LEMMA VerifyNickSteps ==
    ASSUME TypeInv, NEW i \in 1..Len(tasks), VerifyNick(i)
    PROVE  ResumeStep(tasks[i])
<1>1. RunsGoOn
  BY EndTaskRuns DEF VerifyNick
<1>2. ShowNothing /\ RememberNothing /\ crypto' = crypto /\ delivered' = delivered
  BY DEF VerifyNick, ShowNothing, RememberNothing, ghostVars
<1> QED
  BY <1>1, <1>2, TaskTypes, ShowNothingAppends DEF ResumeStep, StepKind
LEMMA ImportNewKeySteps ==
    ASSUME TypeInv, NEW i \in 1..Len(tasks), ImportNewKey(i)
    PROVE  ResumeStep(tasks[i])
<1> DEFINE t == tasks[i]
           e == Entry(t, "key rotation", "system", None, None)
<1>1. RunsGoOn /\ delivered' = delivered /\ Show(e)
  BY EndTaskRuns DEF ImportNewKey
<1>2. t \in Tasks /\ t.f \in Frames /\ t.f.mid \in Mids
  BY TaskTypes
<1>3. crypto' \in Keys
  <2>1. t.f.plain.k # None
    BY DEF ImportNewKey, Waiting, TypeInv, ImportsHaveKeys
  <2> QED BY <1>2, <2>1, StoreAssumption DEF ImportNewKey, SwapKey
<1>4. CacheCleared
  BY <1>2 DEF ImportNewKey, SwapKey, CacheCleared
<1>5. e \in Entries /\ EntryOf(e, t) /\ e.text = "key rotation"
  <2>1. "system" \in Statuses /\ "key rotation" \in Texts /\ None \in Nicks /\ None \in Fps
    BY Literals
  <2>2. e \in Entries /\ EntryOf(e, t)
    <3> HIDE DEF t
    <3> QED BY <1>2, <2>1, EntryProperties
  <2>3. e.text = "key rotation"
    BY DEF Entry
  <2> QED BY <2>2, <2>3
<1> HIDE DEF e
<1>6. AppendsFor(t) /\ New = {Len(messages) + 1} /\ messages'[Len(messages) + 1] = e
  BY <1>1, <1>5, ShowAppends
<1>7. NoContents
  BY <1>5, <1>6, Literals DEF NoContents
<1> QED
  BY <1>1, <1>3, <1>4, <1>6, <1>7 DEF ResumeStep, StepKind
LEMMA ResumeSteps ==
    ASSUME TypeInv, NEW i \in 1..Len(tasks), Resume(i)
    PROVE  ResumeStep(tasks[i])
  BY DecryptMessageSteps, DecryptKeyUpdateSteps, DecryptRoomNameSteps, DecryptNickSteps,
     VerifyMessageSteps, VerifyNickSteps, ImportNewKeySteps DEF Resume

LEMMA TaskProperties ==
    ASSUME TypeInv, NEW f \in Frames
    PROVE  Task(f) \in Tasks /\ Task(f).f = f /\ Task(f).stage = "decrypt"
           /\ Task(f).epoch = epoch /\ Task(f).shown = shown /\ Task(f).adds = adds
  BY DEF Task, Tasks, TypeInv

(* A new run comes last; a frame that starts none may leave a placeholder. *)
LEMMA DeliverSteps ==
    ASSUME TypeInv, NEW f \in Frames, Deliver(f)
    PROVE  /\ AppendsFor(Task(f)) /\ NoContents /\ RememberNothing
           /\ UNCHANGED <<crypto, identVars>>
           /\ delivered < MaxDeliveries /\ delivered' = delivered + 1
           /\ \/ tasks' = tasks
              \/ f.envelope /\ ~IsReplay(f) /\ tasks' = Append(tasks, Task(f))
<1> DEFINE e == Entry(Task(f), "invalid envelope", "unsigned", None, None)
<1>1. Task(f) \in Tasks
  BY TaskProperties
<1>2. e \in Entries /\ EntryOf(e, Task(f))
  <2>1. /\ "unsigned" \in Statuses /\ "invalid envelope" \in Texts
        /\ None \in Nicks /\ None \in Fps
    BY Literals
  <2> QED BY <1>1, <2>1, EntryProperties
<1>3. e.text = "invalid envelope"
  BY DEF Entry
<1>4. Show(e) \/ ShowNothing
  BY DEF Deliver
<1> HIDE DEF e
<1>5. AppendsFor(Task(f)) /\ NoContents
  <2>1. CASE Show(e)
    <3>1. /\ AppendsFor(Task(f)) /\ New = {Len(messages) + 1}
          /\ messages'[Len(messages) + 1] = e
      BY <1>2, <2>1, ShowAppends
    <3> QED BY <1>3, <3>1, Literals DEF NoContents
  <2>2. CASE ShowNothing
    BY <2>2, ShowNothingAppends
  <2> QED BY <1>4, <2>1, <2>2
<1> QED
  BY <1>5 DEF Deliver, Dropped

LEMMA UpdateCryptoSteps ==
    ASSUME TypeInv, NEW k \in Keys, UpdateCrypto(k)
    PROVE  CacheCleared /\ ShowNothing /\ UNCHANGED <<identVars, tasks, delivered>>
           /\ crypto' \in Keys
  BY DEF UpdateCrypto, CacheCleared

LEMMA ClearedCacheOK ==
    ASSUME TypeInv, CacheCleared
    PROVE  CacheInv(replayCache', Mids) /\ adds' \in Nat /\ epoch' \in Nat
<1>1. CacheInv(EmptyCache, Mids)
  BY EmptyCacheOK
<1>2. ASSUME NEW m \in Mids PROVE CacheInv(CacheAdd(EmptyCache, m), Mids)
  <2>1. ~CacheHas(EmptyCache, m)
    BY DEF CacheHas, EmptyCache
  <2> QED BY <1>1, <2>1, CacheAddProperties
<1>3. adds' \in Nat /\ epoch' \in Nat
  BY DEF CacheCleared, TypeInv
<1>4. CASE replayCache' = EmptyCache
  BY <1>1, <1>3, <1>4
<1>5. ASSUME NEW m \in Mids, replayCache' = CacheAdd(EmptyCache, m)
      PROVE  CacheInv(replayCache', Mids)
  BY <1>2, <1>5
<1> QED
  BY <1>3, <1>4, <1>5 DEF CacheCleared

LEMMA StepKindKeepsCache ==
    ASSUME TypeInv, NEW t, t.f.mid \in Mids, StepKind(t)
    PROVE  CacheInv(replayCache', Mids) /\ adds' \in Nat /\ epoch' \in Nat
<1>1. CASE Remember(t.f.mid)
  <2>1. CacheInv(replayCache, Mids)' /\ adds' \in Nat /\ epoch' \in Nat
    BY <1>1, RememberProperties
  <2> QED BY <2>1
<1>2. CASE RememberNothing
  BY <1>2 DEF RememberNothing, TypeInv
<1>3. CASE CacheCleared
  BY <1>3, ClearedCacheOK
<1> QED
  BY <1>1, <1>2, <1>3 DEF StepKind

LEMMA TypeInvInit == Init => TypeInv
<1> SUFFICES ASSUME Init PROVE TypeInv
  OBVIOUS
<1>1. CacheInv(replayCache, Mids)
  BY EmptyCacheOK DEF Init
<1>2. messages \in Seq(Entries) /\ Len(messages) = 0 /\ tasks \in Seq(Tasks) /\ Len(tasks) = 0
  BY DEF Init
<1>3. ImportsHaveKeys /\ \A i \in 1..Len(tasks) : tasks[i].f.envelope
  BY <1>2 DEF ImportsHaveKeys
<1> QED
  BY <1>1, <1>2, <1>3, StoreAssumption DEF Init, TypeInv

LEMMA TypeInvNext == TypeInv /\ [Next]_vars => TypeInv'
<1> SUFFICES ASSUME TypeInv, [Next]_vars PROVE TypeInv'
  OBVIOUS
<1>1. ASSUME NEW f \in Frames, Deliver(f) PROVE TypeInv'
  <2> DEFINE t == Task(f)
  <2>1. /\ AppendsFor(t) /\ RememberNothing /\ UNCHANGED <<crypto, identVars>>
        /\ delivered < MaxDeliveries /\ delivered' = delivered + 1
        /\ tasks' = tasks \/ (f.envelope /\ tasks' = Append(tasks, t))
    BY <1>1, DeliverSteps
  <2>2. t \in Tasks /\ t.f = f /\ t.stage = "decrypt"
    BY TaskProperties
  <2> HIDE DEF t
  <2>3. messages' \in Seq(Entries) /\ shown' = Len(messages')
    BY <2>1 DEF AppendsFor
  <2>4. /\ tasks' \in Seq(Tasks) /\ Len(tasks') <= Len(tasks) + 1
        /\ \A i \in 1..Len(tasks') : (i \in 1..Len(tasks) /\ tasks'[i] = tasks[i])
                                     \/ (f.envelope /\ tasks'[i] = t)
    <3>1. tasks \in Seq(Tasks) /\ Len(tasks) \in Nat
      BY DEF TypeInv
    <3>2. CASE tasks' = tasks
      BY <3>1, <3>2
    <3>3. CASE f.envelope /\ tasks' = Append(tasks, t)
      <4>1. /\ tasks' \in Seq(Tasks) /\ Len(tasks') = Len(tasks) + 1
            /\ tasks'[Len(tasks) + 1] = t
            /\ \A i \in 1..Len(tasks) : tasks'[i] = tasks[i]
        BY <2>2, <3>1, <3>3
      <4>2. \A i \in 1..Len(tasks') : i \in 1..Len(tasks) \/ i = Len(tasks) + 1
        BY <3>1, <4>1
      <4> QED BY <3>1, <3>3, <4>1, <4>2
    <3> QED BY <2>1, <3>2, <3>3
  <2>5. ImportsHaveKeys' /\ \A i \in 1..Len(tasks') : tasks'[i].f.envelope
    BY <2>2, <2>4 DEF TypeInv, ImportsHaveKeys
  <2>6. CacheInv(replayCache, Mids)' /\ adds' \in Nat /\ epoch' \in Nat
    BY <2>1 DEF RememberNothing, TypeInv, CacheInv, CacheOK
  <2>7. delivered' \in 0..MaxDeliveries /\ Len(tasks') <= delivered'
    BY <2>1, <2>4, StoreAssumption DEF TypeInv
  <2> QED
    BY <2>1, <2>3, <2>4, <2>5, <2>6, <2>7 DEF TypeInv
<1>2. ASSUME NEW i \in 1..Len(tasks), Resume(i) PROVE TypeInv'
  <2> DEFINE t == tasks[i]
  <2>1. RunsGoOn /\ AppendsFor(t) /\ StepKind(t) /\ crypto' \in Keys /\ delivered' = delivered
    BY <1>2, ResumeSteps DEF ResumeStep
  <2>2. CacheInv(replayCache', Mids) /\ adds' \in Nat /\ epoch' \in Nat
    BY <2>1, StepKindKeepsCache, TaskTypes
  <2>3. CacheInv(replayCache, Mids)'
    BY <2>2 DEF CacheInv, CacheOK
  <2>4. messages' \in Seq(Entries) /\ shown' = Len(messages')
    BY <2>1 DEF AppendsFor
  <2>5. tasks' \in Seq(Tasks) /\ Len(tasks') <= Len(tasks) /\ ImportsHaveKeys'
        /\ \A j \in 1..Len(tasks') : tasks'[j].f.envelope
    BY <2>1 DEF RunsGoOn, SameRun, TypeInv
  <2>6. Len(tasks') <= delivered'
    BY <2>1, <2>5 DEF TypeInv
  <2> QED
    BY <2>1, <2>2, <2>3, <2>4, <2>5, <2>6 DEF TypeInv
<1>3. ASSUME NEW k \in Keys, UpdateCrypto(k) PROVE TypeInv'
  <2>1. CacheCleared /\ ShowNothing /\ UNCHANGED <<tasks, delivered>> /\ crypto' \in Keys
    BY <1>3, UpdateCryptoSteps
  <2>2. CacheInv(replayCache, Mids)' /\ adds' \in Nat /\ epoch' \in Nat
    BY <2>1, ClearedCacheOK DEF CacheInv, CacheOK
  <2> QED
    BY <2>1, <2>2 DEF ShowNothing, TypeInv, ImportsHaveKeys
<1>4. CASE UNCHANGED vars
  <2>1. UNCHANGED <<crypto, replayCache, messages, tasks, delivered, epoch, adds, shown>>
    BY <1>4 DEF vars, identVars, nameVars, ghostVars
  <2> QED
    BY <2>1 DEF TypeInv, ImportsHaveKeys, CacheInv, CacheOK
<1> QED
  BY <1>1, <1>2, <1>3, <1>4 DEF Next

LEMMA TypeInvHolds == Spec => []TypeInv
  BY TypeInvInit, TypeInvNext, PTL DEF Spec

(* The state is well typed: the two halves of the replay cache name the    *)
(* same ids, each once, and at most CacheMax of them.                      *)
THEOREM TypeCorrect == Spec => []TypeOK
<1>1. TypeInv => TypeOK
  <2> SUFFICES ASSUME TypeInv PROVE TypeOK
    OBVIOUS
  <2>1. \A i \in 1..Len(messages) : messages[i].status \in Statuses
    <3>1. \A i \in 1..Len(messages) : messages[i] \in Entries
      BY DEF TypeInv
    <3> QED BY <3>1 DEF Entries
  <2>2. \A i \in 1..Len(tasks) : /\ tasks[i].f \in Frames /\ tasks[i].f.envelope
                                 /\ tasks[i].stage \in {"decrypt", "verify", "import"}
    <3>1. \A i \in 1..Len(tasks) : tasks[i] \in Tasks
      BY DEF TypeInv
    <3> QED BY <3>1 DEF TypeInv, Tasks
  <2> QED
    BY <2>1, <2>2 DEF TypeInv, TypeOK, CacheInv
<1> QED
  BY <1>1, TypeInvHolds, PTL

-----------------------------------------------------------------------------
(* Replay protection.  Every id is numbered when it enters the cache; the  *)
(* place p of the queue holds the id with the number adds - Len(queue) + p.*)

(* The ids of ms[i] that the entries up to i know of are CacheMax or more  *)
(* behind the number n.                                                    *)
Old(ms, i, n) == \A k \in 1..i : ms[k].mid = ms[i].mid => n - ms[k].addedAs >= CacheMax

(* Runs and entries belong to the past. *)
PastInv ==
    /\ Len(replayCache.queue) <= adds
    /\ \A k \in 1..Len(messages) : messages[k].epoch <= epoch /\ messages[k].addedAs <= adds + 1
    /\ \A j \in 1..Len(tasks) : tasks[j].epoch <= epoch /\ tasks[j].shown <= shown

(* An id that is in the cache has a number no entry is ahead of. *)
QueueNumbers ==
    \A k \in 1..Len(messages), p \in 1..Len(replayCache.queue) :
        replayCache.queue[p] = messages[k].mid
            => messages[k].addedAs <= adds - Len(replayCache.queue) + p

(* A message of this key whose id is no longer in the cache was displaced. *)
GoneAreOld ==
    \A i \in Contents :
        messages[i].epoch = epoch /\ ~CacheHas(replayCache, messages[i].mid)
            => Old(messages, i, adds)

(* A run for a message that has an entry began before that entry, or when  *)
(* the id had been displaced.                                              *)
RunExcused(t) ==
    \A i \in Contents :
        t.f.mid = messages[i].mid /\ t.epoch = messages[i].epoch
            => t.shown < messages[i].place \/ Old(messages, i, t.adds)

RunsExcused == \A j \in 1..Len(tasks) : RunExcused(tasks[j])

ReplayInv ==
    PastInv /\ QueueNumbers /\ GoneAreOld /\ RunsExcused /\ ShownOnce

LEMMA EntryTypes ==
    ASSUME NEW ms \in Seq(Entries), NEW k \in 1..Len(ms)
    PROVE  /\ ms[k] \in Entries
           /\ ms[k].epoch \in Nat /\ ms[k].place \in Nat /\ ms[k].addedAs \in Nat
           /\ ms[k].startedAt \in Nat /\ ms[k].startedAfter \in Nat
<1>1. ms[k] \in Entries
  OBVIOUS
<1> QED
  BY <1>1 DEF Entries

(* In a step an id keeps its number, or is the next one. *)
LEMMA NumbersKept ==
    ASSUME TypeInv, Len(replayCache.queue) <= adds, NEW t, t.f.mid \in Mids, StepKind(t)
    PROVE  /\ adds' \in Nat /\ adds' >= adds /\ adds' <= adds + 1
           /\ Len(replayCache'.queue) \in Nat /\ Len(replayCache'.queue) <= adds'
           /\ \A p \in 1..Len(replayCache'.queue) :
                 \/ \E o \in 1..Len(replayCache.queue) :
                       /\ replayCache'.queue[p] = replayCache.queue[o]
                       /\ adds' - Len(replayCache'.queue) + p = adds - Len(replayCache.queue) + o
                 \/ adds' - Len(replayCache'.queue) + p = adds + 1
<1> DEFINE q == replayCache.queue
           r == replayCache'.queue
<1>1. q \in Seq(Mids) /\ Len(q) \in Nat /\ adds \in Nat /\ CacheMax \in Nat \ {0}
  BY CacheAssumption DEF TypeInv, CacheInv
<1>2. CASE replayCache' = replayCache /\ adds' = adds
  <2>1. r = q
    BY <1>2
  <2>2. adds' \in Nat /\ adds' >= adds /\ adds' <= adds + 1 /\ Len(r) \in Nat /\ Len(r) <= adds'
    BY <1>1, <1>2, <2>1
  <2> HIDE DEF q, r
  <2>3. \A p \in 1..Len(r) :
           p \in 1..Len(q) /\ r[p] = q[p] /\ adds' - Len(r) + p = adds - Len(q) + p
    BY <1>2, <2>1
  <2> QED BY <2>2, <2>3 DEF q, r
<1>3. CASE /\ ~CacheHas(replayCache, t.f.mid)
           /\ replayCache' = CacheAdd(replayCache, t.f.mid) /\ adds' = adds + 1
  <2>1. \/ Len(r) = Len(q) + 1 /\ \A p \in 1..Len(q) : r[p] = q[p]
        \/ Len(q) = CacheMax /\ Len(r) = CacheMax /\ \A p \in 1..CacheMax - 1 : r[p] = q[p + 1]
    BY <1>3, CacheAddProperties DEF TypeInv
  <2> HIDE DEF q, r
  <2>2. CASE Len(r) = Len(q) + 1 /\ \A p \in 1..Len(q) : r[p] = q[p]
    <3>1. ASSUME NEW p \in 1..Len(r), p # Len(q) + 1
          PROVE  p \in 1..Len(q) /\ r[p] = q[p] /\ adds' - Len(r) + p = adds - Len(q) + p
      BY <1>1, <1>3, <2>2, <3>1
    <3>2. adds' - Len(r) + (Len(q) + 1) = adds + 1
      BY <1>1, <1>3, <2>2
    <3>3. ASSUME NEW p \in 1..Len(r)
          PROVE  \/ \E o \in 1..Len(q) : r[p] = q[o] /\ adds' - Len(r) + p = adds - Len(q) + o
                 \/ adds' - Len(r) + p = adds + 1
      <4>1. CASE p = Len(q) + 1
        BY <3>2, <4>1
      <4>2. CASE p # Len(q) + 1
        BY <3>1, <4>2
      <4> QED BY <4>1, <4>2
    <3>4. adds' \in Nat /\ adds' >= adds /\ adds' <= adds + 1 /\ Len(r) \in Nat /\ Len(r) <= adds'
      BY <1>1, <1>3, <2>2 DEF q
    <3> QED BY <3>3, <3>4 DEF q, r
  <2>3. CASE Len(q) = CacheMax /\ Len(r) = CacheMax /\ \A p \in 1..CacheMax - 1 : r[p] = q[p + 1]
    <3>1. ASSUME NEW p \in 1..Len(r), p # CacheMax
          PROVE  /\ p + 1 \in 1..Len(q) /\ r[p] = q[p + 1]
                 /\ adds' - Len(r) + p = adds - Len(q) + (p + 1)
      <4>1. /\ p \in 1..CacheMax - 1 /\ CacheMax \in Nat /\ adds \in Nat
            /\ Len(q) = CacheMax /\ Len(r) = CacheMax
        BY <1>1, <2>3, <3>1
      <4>2. p + 1 \in 1..Len(q)
        BY <4>1
      <4>3. adds' - Len(r) + p = adds - Len(q) + (p + 1)
        BY <1>3, <4>1
      <4>4. r[p] = q[p + 1]
        BY <2>3, <4>1
      <4> QED BY <4>2, <4>3, <4>4
    <3>2. adds' - Len(r) + CacheMax = adds + 1
      BY <1>1, <1>3, <2>3
    <3>3. ASSUME NEW p \in 1..Len(r)
          PROVE  \/ \E o \in 1..Len(q) : r[p] = q[o] /\ adds' - Len(r) + p = adds - Len(q) + o
                 \/ adds' - Len(r) + p = adds + 1
      <4>1. CASE p = CacheMax
        BY <3>2, <4>1
      <4>2. CASE p # CacheMax
        BY <3>1, <4>2
      <4> QED BY <4>1, <4>2
    <3>4. adds' \in Nat /\ adds' >= adds /\ adds' <= adds + 1 /\ Len(r) \in Nat /\ Len(r) <= adds'
      BY <1>1, <1>3, <2>3 DEF q
    <3> QED BY <3>3, <3>4 DEF q, r
  <2> QED BY <2>1, <2>2, <2>3
<1>4. CASE replayCache' = EmptyCache /\ adds' = adds
  <2>1. Len(r) = 0
    BY <1>4 DEF EmptyCache
  <2> QED BY <1>1, <1>4, <2>1
<1>5. ASSUME NEW m \in Mids, replayCache' = CacheAdd(EmptyCache, m), adds' = adds + 1
      PROVE  Len(r) = 1
  <2>1. EmptyCache.queue = <<>> /\ ~CacheHas(EmptyCache, m)
    BY DEF CacheHas, EmptyCache
  <2>2. Append(<<>>, m) \in Seq(Mids) /\ Len(Append(<<>>, m)) = 1
    OBVIOUS
  <2>3. replayCache'.queue = Append(<<>>, m)
    BY <1>1, <1>5, <2>1, <2>2 DEF CacheAdd
  <2> QED BY <2>2, <2>3
<1>6. CASE \E m \in Mids : replayCache' = CacheAdd(EmptyCache, m) /\ adds' = adds + 1
  <2>1. Len(r) = 1 /\ adds' = adds + 1
    BY <1>5, <1>6
  <2> QED BY <1>1, <2>1
<1>7. \/ replayCache' = replayCache /\ adds' = adds
      \/ /\ ~CacheHas(replayCache, t.f.mid)
         /\ replayCache' = CacheAdd(replayCache, t.f.mid) /\ adds' = adds + 1
      \/ replayCache' = EmptyCache /\ adds' = adds
      \/ \E m \in Mids : replayCache' = CacheAdd(EmptyCache, m) /\ adds' = adds + 1
  BY DEF StepKind, Remember, RememberNothing, CacheCleared, CacheAdd
<1> QED
  BY <1>2, <1>3, <1>4, <1>6, <1>7

(* Only the oldest id leaves, and only for a new one. *)
LEMMA OldestLeaves ==
    ASSUME TypeInv, NEW m \in Mids, Remember(m), NEW id,
           CacheHas(replayCache, id), ~CacheHas(replayCache', id)
    PROVE  /\ Len(replayCache.queue) = CacheMax /\ id = replayCache.queue[1]
           /\ adds' = adds + 1
<1>1. ~CacheHas(replayCache, m)
  BY DEF Remember, CacheAdd
<1>2. replayCache' = CacheAdd(replayCache, m) /\ adds' = adds + 1
  BY <1>1 DEF Remember
<1>3. \/ replayCache'.seen = replayCache.seen \cup {m}
      \/ /\ Len(replayCache.queue) = CacheMax
         /\ replayCache'.seen = (replayCache.seen \cup {m}) \ {replayCache.queue[1]}
  BY <1>1, <1>2, CacheAddProperties DEF TypeInv
<1> QED
  BY <1>2, <1>3 DEF CacheHas
(* What the new entries and the old ones are *)
LEMMA EntriesKept ==
    ASSUME TypeInv, NEW t, AppendsFor(t)
    PROVE  /\ Len(messages) \in Nat /\ Len(messages') \in Nat
           /\ \A k \in 1..Len(messages') : \/ k \in 1..Len(messages) /\ messages'[k] = messages[k]
                                           \/ k \in New /\ k > Len(messages) /\ EntryOf(messages'[k], t)
           /\ \A k \in 1..Len(messages) : k \in 1..Len(messages') /\ messages'[k] = messages[k]
           /\ \A i \in 1..Len(messages) : i \in Contents' <=> i \in Contents
<1>1. /\ Len(messages) \in Nat /\ Len(messages') \in Nat /\ Len(messages) <= Len(messages')
      /\ \A k \in 1..Len(messages) : messages'[k] = messages[k]
  BY DEF AppendsFor, TypeInv
<1>2. \A k \in 1..Len(messages) : k \in 1..Len(messages')
  BY <1>1
<1>3. \A i \in 1..Len(messages) : i \in Contents' <=> i \in Contents
  BY <1>1, <1>2 DEF Contents
<1> QED
  BY <1>1, <1>2, <1>3 DEF AppendsFor, New

LEMMA OldKept ==
    ASSUME TypeInv, NEW t, AppendsFor(t), NEW i \in 1..Len(messages), NEW n
    PROVE  Old(messages', i, n) <=> Old(messages, i, n)
<1>1. \A k \in 1..i : k \in 1..Len(messages)
  BY DEF TypeInv
<1> QED
  BY <1>1 DEF AppendsFor, Old

LEMMA PastKept ==
    ASSUME TypeInv, PastInv, NEW t, t.f.mid \in Mids, t.epoch \in Nat, t.epoch <= epoch,
           AppendsFor(t), StepKind(t)
    PROVE  /\ epoch' \in Nat /\ epoch' >= epoch
           /\ Len(replayCache'.queue) <= adds' /\ shown' >= shown
           /\ \A k \in 1..Len(messages') :
                 messages'[k].epoch <= epoch' /\ messages'[k].addedAs <= adds' + 1
<1>1. adds \in Nat /\ epoch \in Nat /\ shown = Len(messages) /\ messages \in Seq(Entries)
  BY DEF TypeInv
<1>2. epoch' = epoch \/ epoch' = epoch + 1
  BY DEF StepKind, Remember, RememberNothing, CacheCleared
<1>3. adds' \in Nat /\ adds' >= adds /\ Len(replayCache'.queue) <= adds'
  BY NumbersKept DEF PastInv
<1>4. ASSUME NEW k \in 1..Len(messages')
      PROVE  messages'[k].epoch <= epoch' /\ messages'[k].addedAs <= adds' + 1
  <2>1. CASE k \in 1..Len(messages) /\ messages'[k] = messages[k]
    <3>1. messages[k].epoch \in Nat /\ messages[k].addedAs \in Nat
      BY <1>1, <2>1, EntryTypes
    <3>2. messages[k].epoch <= epoch /\ messages[k].addedAs <= adds + 1
      BY <2>1 DEF PastInv
    <3> QED
      BY <1>1, <1>2, <1>3, <2>1, <3>1, <3>2
  <2>2. CASE EntryOf(messages'[k], t)
    <3>1. messages'[k].epoch = t.epoch /\ messages'[k].addedAs \in {0, adds + 1}
      BY <2>2 DEF EntryOf
    <3> QED
      BY <1>1, <1>2, <1>3, <3>1
  <2> QED
    BY <2>1, <2>2, EntriesKept
<1> QED
  BY <1>1, <1>2, <1>3, <1>4 DEF AppendsFor

LEMMA QueueNumbersKept ==
    ASSUME TypeInv, PastInv, QueueNumbers, NEW t, t.f.mid \in Mids, AppendsFor(t), StepKind(t)
    PROVE  QueueNumbers'
<1> DEFINE q == replayCache.queue
           r == replayCache'.queue
<1> SUFFICES ASSUME NEW k \in 1..Len(messages'), NEW p \in 1..Len(r), r[p] = messages'[k].mid
             PROVE  messages'[k].addedAs <= adds' - Len(r) + p
  BY DEF QueueNumbers
<1>1. adds \in Nat /\ messages \in Seq(Entries) /\ Len(q) \in Nat /\ Len(q) <= adds
  BY DEF TypeInv, PastInv, CacheInv
<1>2. \/ k \in 1..Len(messages) /\ messages'[k] = messages[k]
      \/ EntryOf(messages'[k], t)
  BY EntriesKept
<1>3. \/ \E o \in 1..Len(q) : r[p] = q[o] /\ adds' - Len(r) + p = adds - Len(q) + o
      \/ adds' - Len(r) + p = adds + 1
  BY NumbersKept DEF PastInv
<1>4. CASE adds' - Len(r) + p = adds + 1
  <2>1. messages'[k].addedAs <= adds + 1
    BY <1>1, <1>2 DEF PastInv, EntryOf
  <2> QED BY <1>4, <2>1
<1>5. ASSUME NEW o \in 1..Len(q), r[p] = q[o], adds' - Len(r) + p = adds - Len(q) + o
      PROVE  messages'[k].addedAs <= adds - Len(q) + o
  <2>1. CASE k \in 1..Len(messages) /\ messages'[k] = messages[k]
    BY <1>5, <2>1 DEF QueueNumbers
  <2>2. CASE EntryOf(messages'[k], t)
    <3>1. CacheHas(replayCache, t.f.mid)
      <4>1. replayCache.seen = {replayCache.queue[j] : j \in 1..Len(replayCache.queue)}
        BY DEF TypeInv, CacheInv, CacheOK
      <4>2. q[o] = t.f.mid
        BY <1>5, <2>2 DEF EntryOf
      <4> QED BY <1>5, <4>1, <4>2 DEF CacheHas
    <3>2. messages'[k].addedAs = 0
      BY <2>2, <3>1 DEF EntryOf
    <3> QED BY <1>1, <3>2
  <2> QED BY <1>2, <2>1, <2>2
<1> QED
  BY <1>3, <1>4, <1>5
LEMMA GoneAreOldKept ==
    ASSUME TypeInv, PastInv, QueueNumbers, GoneAreOld, NEW t, t.f.mid \in Mids,
           t.epoch \in Nat, t.epoch <= epoch, AppendsFor(t), StepKind(t)
    PROVE  GoneAreOld'
<1> SUFFICES ASSUME NEW i \in Contents', messages'[i].epoch = epoch',
                    ~CacheHas(replayCache', messages'[i].mid)
             PROVE  Old(messages', i, adds')
  BY DEF GoneAreOld
<1>1. /\ adds \in Nat /\ epoch \in Nat /\ messages \in Seq(Entries)
      /\ CacheMax \in Nat \ {0} /\ i \in 1..Len(messages')
  BY CacheAssumption DEF TypeInv, Contents
<1>2. /\ \/ i \in 1..Len(messages) /\ messages'[i] = messages[i]
         \/ i \in New /\ i > Len(messages) /\ EntryOf(messages'[i], t)
      /\ i \in 1..Len(messages) => i \in Contents
  BY <1>1, EntriesKept
<1>3. i \in 1..Len(messages) => (messages[i].epoch \in Nat /\ messages[i].epoch <= epoch)
  BY <1>1, EntryTypes DEF PastInv
<1>4. epoch' # epoch + 1
  BY <1>1, <1>2, <1>3 DEF EntryOf
<1>5. CASE RememberNothing /\ NoContents
  <2>1. replayCache' = replayCache /\ adds' = adds /\ epoch' = epoch
    BY <1>5 DEF RememberNothing
  <2>2. i \in 1..Len(messages) /\ i \in Contents /\ messages'[i] = messages[i]
    BY <1>2, <1>5 DEF NoContents, Contents
  <2>3. Old(messages, i, adds)
    BY <2>1, <2>2 DEF GoneAreOld
  <2> QED
    BY <2>1, <2>2, <2>3, OldKept
<1>6. CASE Remember(t.f.mid)
  <2>1. CacheHas(replayCache', t.f.mid)
    BY <1>6, RememberProperties
  <2>2. i \in 1..Len(messages) /\ i \in Contents /\ messages'[i] = messages[i]
    BY <1>2, <2>1 DEF EntryOf
  <2>3. messages[i].epoch = epoch /\ adds' \in Nat /\ adds' >= adds
    BY <1>6, <2>2, NumbersKept DEF Remember, PastInv
  <2>4. \A k \in 1..i : k \in 1..Len(messages)
    BY <1>1, <2>2
  <2>5. \A k \in 1..Len(messages) : messages[k].addedAs \in Nat
    BY <1>1, EntryTypes
  <2>6. CASE ~CacheHas(replayCache, messages[i].mid)
    <3>1. Old(messages, i, adds)
      BY <2>2, <2>3, <2>6 DEF GoneAreOld
    <3>2. Old(messages, i, adds')
      BY <1>1, <2>3, <2>4, <2>5, <3>1 DEF Old
    <3> QED
      BY <2>2, <3>2, OldKept
  <2>7. CASE CacheHas(replayCache, messages[i].mid)
    <3>1. /\ Len(replayCache.queue) = CacheMax /\ messages[i].mid = replayCache.queue[1]
          /\ adds' = adds + 1
      BY <1>6, <2>2, <2>7, OldestLeaves
    <3>2. \A k \in 1..Len(messages) : messages[k].mid = messages[i].mid
                                         => messages[k].addedAs <= adds - CacheMax + 1
      BY <1>1, <3>1 DEF QueueNumbers
    <3>3. Old(messages, i, adds')
      <4> SUFFICES ASSUME NEW k \in 1..i, messages[k].mid = messages[i].mid
                   PROVE  adds' - messages[k].addedAs >= CacheMax
        BY DEF Old
      <4>1. k \in 1..Len(messages)
        BY <2>4
      <4>2. messages[k].addedAs \in Nat /\ messages[k].addedAs <= adds - CacheMax + 1
        BY <2>5, <3>2, <4>1
      <4>3. adds' = adds + 1 /\ adds \in Nat /\ CacheMax \in Nat
        BY <1>1, <3>1
      <4> QED
        BY <4>2, <4>3
    <3> QED
      BY <2>2, <3>3, OldKept
  <2> QED
    BY <2>6, <2>7
<1> QED
  BY <1>4, <1>5, <1>6 DEF StepKind, CacheCleared

(* An entry that is written now comes after every run that is under way. *)
LEMMA RunExcusedKept ==
    ASSUME TypeInv, NEW t, AppendsFor(t), NEW run, run.shown \in Nat, run.shown <= shown,
           RunExcused(run)
    PROVE  RunExcused(run)'
<1> SUFFICES ASSUME NEW i \in Contents', run.f.mid = messages'[i].mid,
                    run.epoch = messages'[i].epoch
             PROVE  run.shown < messages'[i].place \/ Old(messages', i, run.adds)
  BY DEF RunExcused
<1>1. i \in 1..Len(messages')
  BY DEF Contents
<1>2. CASE i \in 1..Len(messages) /\ messages'[i] = messages[i]
  <2>1. i \in Contents
    BY <1>2, EntriesKept
  <2> QED
    BY <1>2, <2>1, OldKept DEF RunExcused
<1>3. CASE EntryOf(messages'[i], t)
  BY <1>3 DEF EntryOf, TypeInv
<1> QED
  BY <1>1, <1>2, <1>3, EntriesKept

(* What a run writes is excused as the run is. *)
LEMMA ShownOnceKept ==
    ASSUME TypeInv, ShownOnce, NEW t, AppendsFor(t),
           NoContents \/ (OneContent /\ RunExcused(t))
    PROVE  ShownOnce'
<1> SUFFICES ASSUME NEW i \in Contents', NEW j \in Contents', i < j, SameMessage(i, j)'
             PROVE  Overlapped(i, j)' \/ Evicted(i, j)'
  BY DEF ShownOnce
<1>1. i \in 1..Len(messages') /\ j \in 1..Len(messages')
  BY DEF Contents
<1>2. messages'[i].mid = messages'[j].mid /\ messages'[i].epoch = messages'[j].epoch
  BY DEF SameMessage
<1>3. Len(messages) \in Nat
  BY DEF TypeInv
<1>4. i \in 1..Len(messages) /\ messages'[i] = messages[i] /\ i \in Contents
  <2>1. CASE i \in 1..Len(messages) /\ messages'[i] = messages[i]
    BY <2>1, EntriesKept
  <2>2. CASE i \in New /\ i > Len(messages)
    <3>1. j \in New /\ j # Len(messages) + 1
      BY <1>1, <1>3, <2>2 DEF New
    <3> QED
      BY <3>1 DEF NoContents, OneContent, Contents
  <2> QED
    BY <1>1, <2>1, <2>2, EntriesKept
<1>5. CASE j \in 1..Len(messages) /\ messages'[j] = messages[j]
  <2>1. j \in Contents /\ SameMessage(i, j)
    BY <1>2, <1>4, <1>5, EntriesKept DEF SameMessage
  <2>2. Overlapped(i, j) \/ Evicted(i, j)
    BY <1>4, <2>1 DEF ShownOnce
  <2>3. Evicted(i, j) => Old(messages', i, messages'[j].startedAfter)
    BY <1>4, <1>5, OldKept DEF Evicted, Old
  <2> QED
    BY <1>4, <1>5, <2>2, <2>3 DEF Overlapped, Evicted, Old
<1>6. CASE j \in New /\ EntryOf(messages'[j], t)
  <2>1. RunExcused(t)
    BY <1>6 DEF NoContents, Contents
  <2>2. t.f.mid = messages[i].mid /\ t.epoch = messages[i].epoch
    BY <1>2, <1>4, <1>6 DEF EntryOf
  <2>3. t.shown < messages[i].place \/ Old(messages, i, t.adds)
    BY <1>4, <2>1, <2>2 DEF RunExcused
  <2>4. messages'[j].startedAt = t.shown /\ messages'[j].startedAfter = t.adds
    BY <1>6 DEF EntryOf
  <2>5. Old(messages, i, t.adds) => Old(messages', i, messages'[j].startedAfter)
    BY <1>4, <2>4, OldKept
  <2> QED
    BY <1>4, <2>3, <2>4, <2>5 DEF Overlapped, Evicted, Old
<1> QED
  BY <1>1, <1>5, <1>6, EntriesKept
LEMMA RunsPast ==
    ASSUME TypeInv, PastInv, RunsExcused, NEW j \in 1..Len(tasks)
    PROVE  /\ tasks[j].f.mid \in Mids /\ tasks[j].epoch \in Nat /\ tasks[j].shown \in Nat
           /\ tasks[j].epoch <= epoch /\ tasks[j].shown <= shown
           /\ RunExcused(tasks[j])
<1>1. tasks[j] \in Tasks
  BY DEF TypeInv
<1> QED
  BY <1>1, TaskTypes DEF Tasks, PastInv, RunsExcused

LEMMA ReplayResume ==
    ASSUME TypeInv, ReplayInv, NEW i \in 1..Len(tasks), Resume(i)
    PROVE  ReplayInv'
<1> DEFINE t == tasks[i]
<1>1. RunsGoOn /\ AppendsFor(t) /\ StepKind(t)
  BY ResumeSteps DEF ResumeStep
<1>2. /\ t.f.mid \in Mids /\ t.epoch \in Nat /\ t.shown \in Nat
      /\ t.epoch <= epoch /\ t.shown <= shown /\ RunExcused(t)
  BY RunsPast DEF ReplayInv
<1>3. /\ epoch \in Nat /\ epoch' \in Nat /\ epoch' >= epoch
      /\ shown \in Nat /\ shown' \in Nat /\ shown' >= shown
      /\ Len(replayCache'.queue) <= adds'
      /\ \A k \in 1..Len(messages') : messages'[k].epoch <= epoch' /\ messages'[k].addedAs <= adds' + 1
  <2> HIDE DEF t
  <2> QED BY <1>1, <1>2, PastKept DEF ReplayInv, TypeInv, AppendsFor
<1>4. ASSUME NEW j \in 1..Len(tasks')
      PROVE  tasks'[j].epoch <= epoch' /\ tasks'[j].shown <= shown' /\ RunExcused(tasks[j])'
  <2>1. PICK k \in 1..Len(tasks) : SameRun(tasks'[j], tasks[k])
    BY <1>1 DEF RunsGoOn
  <2> DEFINE run == tasks[k]
  <2>2. /\ run.shown \in Nat /\ run.epoch \in Nat /\ run.shown <= shown /\ run.epoch <= epoch
        /\ RunExcused(run)
    BY RunsPast DEF ReplayInv
  <2>3. PICK c : c = run
    OBVIOUS
  <2>4. RunExcused(c)'
    <3>1. c.shown \in Nat /\ c.shown <= shown /\ RunExcused(c)
      BY <2>2, <2>3
    <3> QED BY <1>1, <3>1, RunExcusedKept
  <2>5. RunExcused(tasks[j])'
    BY <2>1, <2>3, <2>4 DEF RunExcused, SameRun
  <2>6. tasks'[j].epoch = run.epoch /\ tasks'[j].shown = run.shown
    BY <2>1 DEF SameRun
  <2> QED
    BY <1>3, <2>2, <2>5, <2>6
<1>5. PastInv' /\ RunsExcused'
  BY <1>3, <1>4 DEF PastInv, RunsExcused
<1>6. QueueNumbers' /\ GoneAreOld'
  <2> HIDE DEF t
  <2> QED BY <1>1, <1>2, QueueNumbersKept, GoneAreOldKept DEF ReplayInv
<1>7. ShownOnce'
  BY <1>1, <1>2, ShownOnceKept DEF ReplayInv, StepKind
<1> QED
  BY <1>5, <1>6, <1>7 DEF ReplayInv

LEMMA ReplayDeliver ==
    ASSUME TypeInv, ReplayInv, NEW f \in Frames, Deliver(f)
    PROVE  ReplayInv'
<1> DEFINE t == Task(f)
<1>1. /\ AppendsFor(t) /\ NoContents /\ RememberNothing
      /\ \/ tasks' = tasks
         \/ ~IsReplay(f) /\ tasks' = Append(tasks, t)
  BY DeliverSteps
<1>2. StepKind(t)
  BY <1>1 DEF StepKind
<1>3. /\ t.f.mid \in Mids /\ t.epoch = epoch /\ t.shown = shown /\ t.adds = adds /\ t.f = f
      /\ epoch \in Nat /\ shown \in Nat /\ adds \in Nat /\ t \in Tasks
  BY TaskProperties DEF Mids, TypeInv
<1> HIDE DEF t
<1>4. /\ epoch' = epoch /\ shown' \in Nat /\ shown' >= shown
      /\ Len(replayCache'.queue) <= adds'
      /\ \A k \in 1..Len(messages') : messages'[k].epoch <= epoch' /\ messages'[k].addedAs <= adds' + 1
  <2>1. /\ epoch' \in Nat /\ epoch' >= epoch /\ shown' \in Nat /\ shown' >= shown
        /\ Len(replayCache'.queue) <= adds'
        /\ \A k \in 1..Len(messages') :
              messages'[k].epoch <= epoch' /\ messages'[k].addedAs <= adds' + 1
    BY <1>1, <1>2, <1>3, PastKept DEF ReplayInv, TypeInv, AppendsFor
  <2>2. epoch' = epoch
    BY <1>1 DEF RememberNothing
  <2> QED
    BY <2>1, <2>2
<1>5. ASSUME NEW run, run.shown \in Nat, run.shown <= shown, RunExcused(run)
      PROVE  RunExcused(run)'
  BY <1>1, <1>5, RunExcusedKept
<1>6. ASSUME NEW j \in 1..Len(tasks)
      PROVE  /\ tasks[j].epoch <= epoch' /\ tasks[j].shown <= shown'
             /\ \A c : c = tasks[j] => RunExcused(c)'
  <2>1. /\ tasks[j].shown \in Nat /\ tasks[j].shown <= shown /\ tasks[j].epoch <= epoch
        /\ RunExcused(tasks[j])
    BY RunsPast DEF ReplayInv
  <2>2. ASSUME NEW c, c = tasks[j] PROVE RunExcused(c)'
    <3>1. c.shown \in Nat /\ c.shown <= shown /\ RunExcused(c)
      BY <2>1, <2>2
    <3> QED BY <1>5, <3>1
  <2> QED
    BY <1>3, <1>4, <2>1, <2>2
<1>7. ASSUME ~IsReplay(f)
      PROVE  \A c : c = t => RunExcused(c)'
  <2>1. RunExcused(t)
    <3> SUFFICES ASSUME NEW i \in Contents, t.f.mid = messages[i].mid, t.epoch = messages[i].epoch
                 PROVE  Old(messages, i, t.adds)
      BY DEF RunExcused
    <3>1. ~CacheHas(replayCache, messages[i].mid)
      BY <1>3, <1>7 DEF IsReplay
    <3> QED
      BY <1>3, <3>1 DEF ReplayInv, GoneAreOld
  <2>2. ASSUME NEW c, c = t PROVE RunExcused(c)'
    <3>1. c.shown \in Nat /\ c.shown <= shown /\ RunExcused(c)
      BY <1>3, <2>1, <2>2
    <3> QED BY <1>5, <3>1
  <2> QED BY <2>2
<1>8. \A j \in 1..Len(tasks') : \/ j \in 1..Len(tasks) /\ tasks'[j] = tasks[j]
                                \/ ~IsReplay(f) /\ tasks'[j] = t
  <2>1. tasks \in Seq(Tasks) /\ Len(tasks) \in Nat
    BY DEF TypeInv
  <2>2. CASE tasks' = tasks
    BY <2>2
  <2>3. CASE ~IsReplay(f) /\ tasks' = Append(tasks, t)
    <3>1. /\ Len(tasks') = Len(tasks) + 1 /\ tasks'[Len(tasks) + 1] = t
          /\ \A j \in 1..Len(tasks) : tasks'[j] = tasks[j]
      BY <1>3, <2>1, <2>3
    <3>2. \A j \in 1..Len(tasks') : j \in 1..Len(tasks) \/ j = Len(tasks) + 1
      BY <2>1, <3>1
    <3> QED BY <2>3, <3>1, <3>2
  <2> QED BY <1>1, <2>2, <2>3
<1>9. ASSUME NEW j \in 1..Len(tasks')
      PROVE  tasks'[j].epoch <= epoch' /\ tasks'[j].shown <= shown' /\ RunExcused(tasks[j])'
  <2>1. PICK c : c = tasks'[j]
    OBVIOUS
  <2>2. c.epoch <= epoch' /\ c.shown <= shown' /\ RunExcused(c)'
    <3>1. CASE j \in 1..Len(tasks) /\ tasks'[j] = tasks[j]
      BY <1>6, <2>1, <3>1
    <3>2. CASE ~IsReplay(f) /\ tasks'[j] = t
      BY <1>3, <1>4, <1>7, <2>1, <3>2
    <3> QED BY <1>8, <3>1, <3>2
  <2> QED
    BY <2>1, <2>2 DEF RunExcused
<1>10. PastInv' /\ RunsExcused'
  BY <1>4, <1>9 DEF PastInv, RunsExcused
<1>11. QueueNumbers' /\ GoneAreOld'
  BY <1>1, <1>2, <1>3, QueueNumbersKept, GoneAreOldKept DEF ReplayInv
<1>12. ShownOnce'
  BY <1>1, ShownOnceKept DEF ReplayInv
<1> QED
  BY <1>10, <1>11, <1>12 DEF ReplayInv
LEMMA ReplayUpdateCrypto ==
    ASSUME TypeInv, ReplayInv, NEW k \in Keys, UpdateCrypto(k)
    PROVE  ReplayInv'
<1>1. /\ replayCache' = EmptyCache /\ adds' = adds /\ epoch' = epoch + 1
      /\ messages' = messages /\ shown' = shown /\ tasks' = tasks
      /\ epoch \in Nat /\ adds \in Nat
  BY DEF UpdateCrypto, ShowNothing, TypeInv
<1>2. Len(replayCache'.queue) = 0
  BY <1>1 DEF EmptyCache
<1>3. Contents' = Contents
  BY <1>1 DEF Contents
<1>4. \A i \in 1..Len(messages) : messages[i].epoch \in Nat /\ messages[i].epoch <= epoch
  BY EntryTypes DEF TypeInv, ReplayInv, PastInv
<1>5. \A j \in 1..Len(tasks) : tasks[j].epoch \in Nat
  BY RunsPast DEF ReplayInv
<1>6. PastInv'
  BY <1>1, <1>2, <1>4, <1>5 DEF ReplayInv, PastInv
<1>7. QueueNumbers'
  BY <1>2 DEF QueueNumbers
<1>8. GoneAreOld'
  BY <1>1, <1>3, <1>4 DEF GoneAreOld, Contents
<1>9. RunsExcused'
  BY <1>1, <1>3 DEF ReplayInv, RunsExcused, RunExcused
<1>10. ShownOnce'
  BY <1>1, <1>3 DEF ReplayInv, ShownOnce, SameMessage, Overlapped, Evicted
<1> QED
  BY <1>6, <1>7, <1>8, <1>9, <1>10 DEF ReplayInv

LEMMA ReplayInit == Init => ReplayInv
<1> SUFFICES ASSUME Init PROVE ReplayInv
  OBVIOUS
<1>1. Len(messages) = 0 /\ Len(tasks) = 0 /\ Len(replayCache.queue) = 0 /\ adds = 0
  BY DEF Init, EmptyCache
<1>2. Contents = {}
  BY <1>1 DEF Contents
<1> QED
  BY <1>1, <1>2 DEF ReplayInv, PastInv, QueueNumbers, GoneAreOld, RunsExcused, ShownOnce

LEMMA ReplayNext == TypeInv /\ ReplayInv /\ [Next]_vars => ReplayInv'
<1> SUFFICES ASSUME TypeInv, ReplayInv, [Next]_vars PROVE ReplayInv'
  OBVIOUS
<1>1. CASE UNCHANGED vars
  <2>1. UNCHANGED <<replayCache, messages, tasks, epoch, adds, shown>>
    BY <1>1 DEF vars, ghostVars
  <2>2. Contents' = Contents
    BY <2>1 DEF Contents
  <2> QED
    BY <2>1, <2>2 DEF ReplayInv, PastInv, QueueNumbers, GoneAreOld, RunsExcused, RunExcused,
                      ShownOnce, SameMessage, Overlapped, Evicted
<1> QED
  BY <1>1, ReplayDeliver, ReplayResume, ReplayUpdateCrypto DEF Next

(* Replay protection, for any size of the cache and any number of handlers *)
(* that overlap: what a message says has one entry per key, unless the     *)
(* handlers overlapped or CacheMax newer ids had displaced its id.         *)
THEOREM MessagesShownOnce == Spec => []ShownOnce
<1>1. Spec => []ReplayInv
  BY TypeInvHolds, ReplayInit, ReplayNext, PTL DEF Spec
<1>2. ReplayInv => ShownOnce
  BY DEF ReplayInv
<1> QED
  BY <1>1, <1>2, PTL

-----------------------------------------------------------------------------
(* Identities *)

(* The owner of a nick that an entry shows as verified is pinned. *)
PinsInv ==
    /\ \A n \in DOMAIN nickToFp : nickToFp[n] # None
    /\ \A i \in 1..Len(messages) : messages[i].status = "verified" =>
          messages[i].nick \in DOMAIN nickToFp /\ nickToFp[messages[i].nick] = messages[i].fp

(* An identity that an entry shows is that of its connection, or the       *)
(* warning about the connection is there.                                  *)
ConnectionsInv ==
    /\ \A c \in DOMAIN fpByConn : fpByConn[c] # None
    /\ \A i \in Attributed :
          /\ messages[i].from \in DOMAIN fpByConn
          /\ fpByConn[messages[i].from] = messages[i].fp \/ messages[i].from \in mismatched

Notice(e, nick, fp) ==
    e.status = "system" /\ e.text = "identity conflict" /\ e.nick = nick /\ e.fp = fp

(* Every pair that was announced has one notice in the timeline, and no    *)
(* other pair has any.                                                     *)
NoticesInv ==
    /\ \A i \in 1..Len(messages) : messages[i].status = "conflict" =>
          <<messages[i].nick, messages[i].fp>> \in conflictWarned
    /\ \A nick, fp :
          IF <<nick, fp>> \in conflictWarned
          THEN \E j \in 1..Len(messages) : \A k \in 1..Len(messages) :
                  Notice(messages[k], nick, fp) <=> k = j
          ELSE \A k \in 1..Len(messages) : ~Notice(messages[k], nick, fp)

IdentityInv == PinsInv /\ ConnectionsInv /\ NoticesInv

(* An entry that says nothing about an identity *)
Neutral(e) ==
    /\ e.status \notin {"verified", "conflict"}
    /\ ~(e.status = "system" /\ e.text = "identity conflict")
AllNeutral == \A n \in New : Neutral(messages'[n])

LEMMA ShowNeutral ==
    ASSUME TypeInv, NEW e, Neutral(e), Show(e)
    PROVE  AllNeutral
<1> DEFINE S == Entries \cup {e}
<1>1. messages \in Seq(S) /\ <<e>> \in Seq(S) /\ Len(<<e>>) = 1 /\ <<e>>[1] = e
      /\ Len(messages) \in Nat
  BY DEF TypeInv
<1>2. messages' = messages \o <<e>>
  BY DEF Show, ShowAll
<1>3. Len(messages') = Len(messages) + 1 /\ messages'[Len(messages) + 1] = e
  BY <1>1, <1>2
<1>4. \A n \in New : n = Len(messages) + 1
  BY <1>1, <1>3 DEF New
<1> QED
  BY <1>3, <1>4 DEF AllNeutral

LEMMA ShowNothingNeutral ==
    ASSUME TypeInv, ShowNothing
    PROVE  AllNeutral
  BY DEF ShowNothing, AllNeutral, New

LEMMA DecryptMessageNeutral ==
    ASSUME TypeInv, NEW i \in 1..Len(tasks), DecryptMessage(i)
    PROVE  AllNeutral
<1> DEFINE t == tasks[i]
           p == t.f.plain
           class == IF Decrypts(t) THEN MessageClass(p) ELSE "failed"
<1>1. class \in {"signed", "stale", "ignored", "raw", "failed"}
  BY DEF MessageClass
<1>2. CASE class \in {"signed", "ignored"}
  <2>1. ShowNothing
    BY <1>2 DEF DecryptMessage
  <2> QED BY <2>1, ShowNothingNeutral
<1>3. CASE class = "stale"
  <2>1. Show(Entry(t, "stale signature", "invalid", None, fpOf(p.pk)))
    BY <1>3 DEF DecryptMessage
  <2>2. Neutral(Entry(t, "stale signature", "invalid", None, fpOf(p.pk)))
    BY DEF Neutral, Entry
  <2> QED BY <2>1, <2>2, ShowNeutral
<1>4. CASE class = "raw"
  <2>1. Show(Entry(t, AsItStands(p), "unsigned", None, None))
    BY <1>4 DEF DecryptMessage
  <2>2. Neutral(Entry(t, AsItStands(p), "unsigned", None, None))
    BY DEF Neutral, Entry
  <2> QED BY <2>1, <2>2, ShowNeutral
<1>5. CASE class = "failed"
  <2>1. Show(Entry(t, "decrypt failed", "unsigned", None, None))
    BY <1>5 DEF DecryptMessage
  <2>2. Neutral(Entry(t, "decrypt failed", "unsigned", None, None))
    BY DEF Neutral, Entry
  <2> QED BY <2>1, <2>2, ShowNeutral
<1> QED
  BY <1>1, <1>2, <1>3, <1>4, <1>5

LEMMA DecryptRoomNameNeutral ==
    ASSUME TypeInv, NEW i \in 1..Len(tasks), DecryptRoomName(i)
    PROVE  AllNeutral
<1> DEFINE e == Entry(tasks[i], "room name", "system", None, None)
<1>1. ShowNothing \/ Show(e)
  BY DEF DecryptRoomName
<1>2. Neutral(e)
  BY DEF Neutral, Entry
<1> HIDE DEF e
<1> QED
  BY <1>1, <1>2, ShowNeutral, ShowNothingNeutral

LEMMA ImportNewKeyNeutral ==
    ASSUME TypeInv, NEW i \in 1..Len(tasks), ImportNewKey(i)
    PROVE  AllNeutral
<1> DEFINE e == Entry(tasks[i], "key rotation", "system", None, None)
<1>1. Show(e)
  BY DEF ImportNewKey
<1>2. Neutral(e)
  BY DEF Neutral, Entry
<1> HIDE DEF e
<1> QED
  BY <1>1, <1>2, ShowNeutral

LEMMA DeliverNeutral ==
    ASSUME TypeInv, NEW f \in Frames, Deliver(f)
    PROVE  AllNeutral
<1> DEFINE e == Entry(Task(f), "invalid envelope", "unsigned", None, None)
<1>1. ShowNothing \/ Show(e)
  BY DEF Deliver
<1>2. Neutral(e)
  BY DEF Neutral, Entry
<1> HIDE DEF e
<1> QED
  BY <1>1, <1>2, ShowNeutral, ShowNothingNeutral

(* A pin that is set stays. *)
PinsKept ==
    /\ \A n \in DOMAIN nickToFp : n \in DOMAIN nickToFp' /\ nickToFp'[n] = nickToFp[n]
    /\ \A n \in DOMAIN nickToFp' : nickToFp'[n] # None

LEMMA PinProperties ==
    ASSUME PinsInv, NEW nick, NEW fp, fp # None, Pin(nick, fp)
    PROVE  PinsKept /\ nick \in DOMAIN nickToFp'
           /\ (StatusOf(nick, fp) = "verified" => nickToFp'[nick] = fp)
<1>1. CASE nick \in DOMAIN nickToFp
  BY <1>1 DEF Pin, PinsInv, PinsKept, StatusOf, Lookup
<1>2. CASE nick \notin DOMAIN nickToFp
  <2>1. nickToFp' = With(nickToFp, nick, fp)
    BY <1>2 DEF Pin
  <2>2. /\ DOMAIN nickToFp' = DOMAIN nickToFp \cup {nick} /\ nickToFp'[nick] = fp
        /\ \A n \in DOMAIN nickToFp \ {nick} : nickToFp'[n] = nickToFp[n]
    BY <2>1 DEF With
  <2>3. \A n \in DOMAIN nickToFp : n # nick
    BY <1>2
  <2>4. \A n \in DOMAIN nickToFp : nickToFp[n] # None
    BY DEF PinsInv
  <2> QED
    BY <2>2, <2>3, <2>4 DEF PinsKept
<1> QED
  BY <1>1, <1>2

LEMMA NeutralKeeps ==
    ASSUME TypeInv, IdentityInv, NEW t, AppendsFor(t), AllNeutral, PinsKept,
           UNCHANGED <<fpByConn, conflictWarned, mismatched>>
    PROVE  IdentityInv'
<1>1. /\ Len(messages) \in Nat /\ Len(messages') \in Nat
      /\ \A k \in 1..Len(messages') : \/ k \in 1..Len(messages) /\ messages'[k] = messages[k]
                                      \/ k \in New
      /\ \A k \in 1..Len(messages) : k \in 1..Len(messages') /\ messages'[k] = messages[k]
  BY EntriesKept
<1>2. \A k \in New : Neutral(messages'[k])
  BY DEF AllNeutral
<1>3. PinsInv'
  <2>1. ASSUME NEW i \in 1..Len(messages'), messages'[i].status = "verified"
        PROVE  messages'[i].nick \in DOMAIN nickToFp'
               /\ nickToFp'[messages'[i].nick] = messages'[i].fp
    <3>1. i \in 1..Len(messages) /\ messages'[i] = messages[i]
      BY <1>1, <1>2, <2>1 DEF Neutral
    <3>2. /\ messages[i].nick \in DOMAIN nickToFp
          /\ nickToFp[messages[i].nick] = messages[i].fp
      BY <2>1, <3>1 DEF IdentityInv, PinsInv
    <3> QED BY <3>1, <3>2 DEF PinsKept
  <2> QED BY <2>1 DEF PinsInv, PinsKept
<1>4. \A i \in Attributed' : i \in Attributed /\ messages'[i] = messages[i]
  BY <1>1, <1>2 DEF Attributed, Neutral
<1>5. ConnectionsInv'
  BY <1>4 DEF IdentityInv, ConnectionsInv
<1>6. \A i \in 1..Len(messages') : messages'[i].status = "conflict" =>
         <<messages'[i].nick, messages'[i].fp>> \in conflictWarned'
  BY <1>1, <1>2 DEF IdentityInv, NoticesInv, Neutral
<1>7. \A k \in New : \A nick, fp : ~Notice(messages'[k], nick, fp)
  BY <1>2 DEF Notice, Neutral
<1>8. ASSUME NEW nick, NEW fp
      PROVE  IF <<nick, fp>> \in conflictWarned'
             THEN \E j \in 1..Len(messages') : \A k \in 1..Len(messages') :
                     Notice(messages'[k], nick, fp) <=> k = j
             ELSE \A k \in 1..Len(messages') : ~Notice(messages'[k], nick, fp)
  <2>1. CASE <<nick, fp>> \in conflictWarned
    <3>1. PICK j \in 1..Len(messages) : \A k \in 1..Len(messages) :
                  Notice(messages[k], nick, fp) <=> k = j
      BY <2>1 DEF IdentityInv, NoticesInv
    <3>2. \A k \in New : k # j
      BY DEF New
    <3>3. \A k \in 1..Len(messages') : Notice(messages'[k], nick, fp) <=> k = j
      BY <1>1, <1>7, <3>1, <3>2
    <3> QED BY <1>1, <2>1, <3>3
  <2>2. CASE <<nick, fp>> \notin conflictWarned
    <3>1. \A k \in 1..Len(messages) : ~Notice(messages[k], nick, fp)
      BY <2>2 DEF IdentityInv, NoticesInv
    <3> QED BY <1>1, <1>7, <2>2, <3>1
  <2> QED BY <2>1, <2>2
<1>9. NoticesInv'
  BY <1>6, <1>8 DEF NoticesInv
<1> QED
  BY <1>3, <1>5, <1>9 DEF IdentityInv
LEMMA NoteProperties ==
    ASSUME ConnectionsInv, NEW from, NEW fp, fp # None, NoteConnection(from, fp)
    PROVE  /\ \A c \in DOMAIN fpByConn : c \in DOMAIN fpByConn' /\ fpByConn'[c] = fpByConn[c]
           /\ \A c \in DOMAIN fpByConn' : fpByConn'[c] # None
           /\ mismatched \subseteq mismatched'
           /\ from \in DOMAIN fpByConn'
           /\ fpByConn'[from] = fp \/ from \in mismatched'
<1>1. \A c \in DOMAIN fpByConn : fpByConn[c] # None
  BY DEF ConnectionsInv
<1>2. CASE Lookup(fpByConn, from) \in {None, fp}
  <2>1. fpByConn' = With(fpByConn, from, fp) /\ mismatched' = mismatched
    BY <1>2 DEF NoteConnection
  <2>2. /\ DOMAIN fpByConn' = DOMAIN fpByConn \cup {from} /\ fpByConn'[from] = fp
        /\ \A c \in DOMAIN fpByConn \ {from} : fpByConn'[c] = fpByConn[c]
    BY <2>1 DEF With
  <2>3. from \in DOMAIN fpByConn => fpByConn[from] = fp
    BY <1>1, <1>2 DEF Lookup
  <2> QED
    BY <1>1, <2>1, <2>2, <2>3
<1>3. CASE Lookup(fpByConn, from) \notin {None, fp}
  <2>1. fpByConn' = fpByConn /\ mismatched' = mismatched \cup {from}
    BY <1>3 DEF NoteConnection
  <2>2. from \in DOMAIN fpByConn
    BY <1>3 DEF Lookup
  <2> QED
    BY <1>1, <2>1, <2>2
<1> QED
  BY <1>2, <1>3

(* A signature that verifies: the entry e, and a notice d for a new conflict *)
LEMMA VerifiedKeeps ==
    ASSUME TypeInv, IdentityInv, NEW t, AppendsFor(t), NEW e, NEW d,
           NEW nick, NEW fp, NEW from, fp # None,
           Pin(nick, fp), NoteConnection(from, fp),
           e.nick = nick, e.fp = fp, e.from = from, e.status = StatusOf(nick, fp),
           Notice(d, nick, fp), messages'[Len(messages) + 1] = e,
           \/ /\ e.status = "conflict" /\ <<nick, fp>> \notin conflictWarned
              /\ conflictWarned' = conflictWarned \cup {<<nick, fp>>}
              /\ New = {Len(messages) + 1, Len(messages) + 2}
              /\ messages'[Len(messages) + 2] = d
           \/ /\ e.status = "conflict" => <<nick, fp>> \in conflictWarned
              /\ conflictWarned' = conflictWarned
              /\ New = {Len(messages) + 1}
    PROVE  IdentityInv'
<1> DEFINE L == Len(messages)
<1>1. /\ L \in Nat
      /\ \A k \in 1..Len(messages') : \/ k \in 1..L /\ messages'[k] = messages[k]
                                      \/ k = L + 1 /\ messages'[k] = e
                                      \/ k = L + 2 /\ messages'[k] = d
      /\ \A k \in 1..L : k \in 1..Len(messages') /\ messages'[k] = messages[k]
      /\ L + 1 \notin 1..L /\ L + 2 \notin 1..L
  BY EntriesKept
<1>2. e.status \in {"verified", "conflict"} /\ d.status = "system"
  BY DEF StatusOf, Notice
<1>3. PinsKept /\ nick \in DOMAIN nickToFp' /\ (e.status = "verified" => nickToFp'[nick] = fp)
  BY PinProperties DEF IdentityInv
<1> HIDE DEF L
<1>4. PinsInv'
  <2>1. ASSUME NEW i \in 1..Len(messages'), messages'[i].status = "verified"
        PROVE  messages'[i].nick \in DOMAIN nickToFp'
               /\ nickToFp'[messages'[i].nick] = messages'[i].fp
    <3>1. CASE i \in 1..L /\ messages'[i] = messages[i]
      <4>1. /\ messages[i].nick \in DOMAIN nickToFp
            /\ nickToFp[messages[i].nick] = messages[i].fp
        BY <2>1, <3>1 DEF IdentityInv, PinsInv, L
      <4> QED BY <1>3, <3>1, <4>1 DEF PinsKept
    <3>2. CASE messages'[i] = e
      BY <1>3, <2>1, <3>2
    <3> QED BY <1>1, <1>2, <2>1, <3>1, <3>2
  <2> QED BY <1>3, <2>1 DEF PinsInv, PinsKept
<1>5. ConnectionsInv'
  <2>1. /\ \A c \in DOMAIN fpByConn : c \in DOMAIN fpByConn' /\ fpByConn'[c] = fpByConn[c]
        /\ \A c \in DOMAIN fpByConn' : fpByConn'[c] # None
        /\ mismatched \subseteq mismatched'
        /\ from \in DOMAIN fpByConn'
        /\ fpByConn'[from] = fp \/ from \in mismatched'
    BY NoteProperties DEF IdentityInv
  <2>2. ASSUME NEW i \in Attributed'
        PROVE  /\ messages'[i].from \in DOMAIN fpByConn'
               /\ fpByConn'[messages'[i].from] = messages'[i].fp \/ messages'[i].from \in mismatched'
    <3>1. i \in 1..Len(messages') /\ messages'[i].status \in {"verified", "conflict"}
      BY DEF Attributed
    <3>2. CASE i \in 1..L /\ messages'[i] = messages[i]
      <4>1. i \in Attributed
        BY <3>1, <3>2 DEF Attributed, L
      <4>2. /\ messages[i].from \in DOMAIN fpByConn
            /\ fpByConn[messages[i].from] = messages[i].fp \/ messages[i].from \in mismatched
        BY <4>1 DEF IdentityInv, ConnectionsInv
      <4> QED BY <2>1, <3>2, <4>2
    <3>3. CASE messages'[i] = e
      BY <2>1, <3>3
    <3> QED BY <1>1, <1>2, <3>1, <3>2, <3>3
  <2> QED BY <2>1, <2>2 DEF ConnectionsInv
<1>6. \A i \in 1..Len(messages') : messages'[i].status = "conflict" =>
         <<messages'[i].nick, messages'[i].fp>> \in conflictWarned'
  <2>1. \A i \in 1..L : messages[i].status = "conflict" =>
           <<messages[i].nick, messages[i].fp>> \in conflictWarned
    BY DEF IdentityInv, NoticesInv, L
  <2> QED
    BY <1>1, <1>2, <2>1
<1>7. \A n, g : ~Notice(e, n, g)
  BY <1>2 DEF Notice
<1>8. \A n, g : Notice(d, n, g) <=> n = nick /\ g = fp
  BY DEF Notice
<1>9. ASSUME NEW n, NEW g
      PROVE  IF <<n, g>> \in conflictWarned'
             THEN \E j \in 1..Len(messages') : \A k \in 1..Len(messages') :
                     Notice(messages'[k], n, g) <=> k = j
             ELSE \A k \in 1..Len(messages') : ~Notice(messages'[k], n, g)
  <2>1. IF <<n, g>> \in conflictWarned
        THEN \E j \in 1..L : \A k \in 1..L : Notice(messages[k], n, g) <=> k = j
        ELSE \A k \in 1..L : ~Notice(messages[k], n, g)
    BY DEF IdentityInv, NoticesInv, L
  <2>2. CASE /\ <<nick, fp>> \notin conflictWarned
             /\ conflictWarned' = conflictWarned \cup {<<nick, fp>>}
             /\ New = {L + 1, L + 2} /\ messages'[L + 2] = d
    <3>1. L + 2 \in 1..Len(messages')
      BY <2>2 DEF New
    <3>2. CASE n = nick /\ g = fp
      <4>1. \A k \in 1..Len(messages') : Notice(messages'[k], n, g) <=> k = L + 2
        BY <1>1, <1>7, <1>8, <2>1, <2>2, <3>2
      <4> QED BY <2>2, <3>1, <3>2, <4>1
    <3>3. CASE ~(n = nick /\ g = fp)
      <4>1. <<n, g>> \in conflictWarned' <=> <<n, g>> \in conflictWarned
        BY <2>2, <3>3
      <4>2. ~Notice(d, n, g)
        BY <1>8, <3>3
      <4>3. CASE <<n, g>> \in conflictWarned
        <5>1. PICK j \in 1..L : \A k \in 1..L : Notice(messages[k], n, g) <=> k = j
          BY <2>1, <4>3
        <5>2. \A k \in 1..Len(messages') : Notice(messages'[k], n, g) <=> k = j
          BY <1>1, <1>7, <4>2, <5>1
        <5> QED BY <1>1, <4>1, <4>3, <5>2
      <4>4. CASE <<n, g>> \notin conflictWarned
        BY <1>1, <1>7, <2>1, <4>1, <4>2, <4>4
      <4> QED BY <4>3, <4>4
    <3> QED BY <3>2, <3>3
  <2>3. CASE conflictWarned' = conflictWarned /\ New = {L + 1}
    <3>1. \A k \in 1..Len(messages') : \/ k \in 1..L /\ messages'[k] = messages[k]
                                       \/ k = L + 1 /\ messages'[k] = e
      <4>1. L + 2 \notin 1..Len(messages')
        BY <1>1, <2>3 DEF New, L
      <4> QED BY <1>1, <4>1
    <3>2. CASE <<n, g>> \in conflictWarned
      <4>1. PICK j \in 1..L : \A k \in 1..L : Notice(messages[k], n, g) <=> k = j
        BY <2>1, <3>2
      <4>2. \A k \in 1..Len(messages') : Notice(messages'[k], n, g) <=> k = j
        BY <1>1, <1>7, <3>1, <4>1
      <4> QED BY <1>1, <2>3, <3>2, <4>2
    <3>3. CASE <<n, g>> \notin conflictWarned
      BY <1>7, <2>1, <2>3, <3>1, <3>3
    <3> QED BY <3>2, <3>3
  <2> QED BY <2>2, <2>3 DEF L
<1>10. NoticesInv'
  BY <1>6, <1>9 DEF NoticesInv
<1> QED
  BY <1>4, <1>5, <1>10 DEF IdentityInv
LEMMA VerifyMessageKeeps ==
    ASSUME TypeInv, IdentityInv, NEW i \in 1..Len(tasks), VerifyMessage(i)
    PROVE  IdentityInv'
<1> DEFINE t == tasks[i]
           p == t.f.plain
           valid == verifyIdentity(p.pk, p.sig, messageSigData(ChannelId, t.f.mid, p.nick, p.text))
           fp == fpOf(p.pk)
           status == StatusOf(p.nick, fp)
           e == Entry(t, p.text, status, p.nick, fp)
           d == [e EXCEPT !.text = "identity conflict", !.status = "system"]
           bad == Entry(t, "invalid signature", "invalid", p.nick, fp)
<1>1. AppendsFor(t)
  BY VerifyMessageSteps DEF ResumeStep
<1>2. CASE ~valid
  <2>1. Show(bad) /\ UNCHANGED identVars
    BY <1>2 DEF VerifyMessage
  <2>2. Neutral(bad)
    BY DEF Neutral, Entry
  <2> HIDE DEF bad
  <2>3. AllNeutral
    BY <2>1, <2>2, ShowNeutral
  <2>4. PinsKept
    BY <2>1 DEF identVars, PinsKept, IdentityInv, PinsInv
  <2> QED
    BY <1>1, <2>1, <2>3, <2>4, NeutralKeeps DEF identVars
<1>3. CASE valid
  <2>1. fp # None
    BY <1>3, TaskTypes, StoreAssumption DEF verifyIdentity
  <2>2. Pin(p.nick, fp) /\ NoteConnection(t.f.from, fp)
    BY <1>3 DEF VerifyMessage
  <2>3. \/ /\ status = "conflict" /\ <<p.nick, fp>> \notin conflictWarned
           /\ conflictWarned' = conflictWarned \cup {<<p.nick, fp>>}
           /\ ShowAll(<<e, d>>)
        \/ /\ status = "conflict" => <<p.nick, fp>> \in conflictWarned
           /\ conflictWarned' = conflictWarned /\ Show(e)
    BY <1>3 DEF VerifyMessage, Announced
  <2>4. e.nick = p.nick /\ e.fp = fp /\ e.from = t.f.from /\ e.status = status
    BY DEF Entry
  <2>5. Notice(d, p.nick, fp) /\ d.text = "identity conflict"
    BY DEF Entry, Notice
  <2>6. /\ t \in Tasks /\ p.text \in Texts /\ p.nick \in Nicks /\ fp \in Fps
        /\ status \in Statuses
    BY TaskTypes DEF StatusOf, Statuses
  <2>7. e \in Entries /\ EntryOf(e, t)
    BY <2>6, EntryProperties
  <2>8. d \in Entries /\ EntryOf(d, t)
    <3> HIDE DEF e
    <3> QED BY <2>7, Literals DEF Entries, EntryOf
  <2> HIDE DEF e, d, status, fp
  <2>9. CASE /\ status = "conflict" /\ <<p.nick, fp>> \notin conflictWarned
             /\ conflictWarned' = conflictWarned \cup {<<p.nick, fp>>}
             /\ ShowAll(<<e, d>>)
    <3>1. /\ New = {Len(messages) + 1, Len(messages) + 2}
          /\ messages'[Len(messages) + 1] = e /\ messages'[Len(messages) + 2] = d
      BY <2>5, <2>7, <2>8, <2>9, Literals, ShowTwoAppends
    <3> HIDE DEF t, p
    <3> QED
      BY <1>1, <2>1, <2>2, <2>4, <2>5, <2>9, <3>1, VerifiedKeeps DEF status
  <2>10. CASE /\ status = "conflict" => <<p.nick, fp>> \in conflictWarned
              /\ conflictWarned' = conflictWarned /\ Show(e)
    <3>1. New = {Len(messages) + 1} /\ messages'[Len(messages) + 1] = e
      BY <2>7, <2>10, ShowAppends
    <3> HIDE DEF t, p
    <3> QED
      BY <1>1, <2>1, <2>2, <2>4, <2>5, <2>10, <3>1, VerifiedKeeps DEF status
  <2> QED
    BY <2>3, <2>9, <2>10
<1> QED
  BY <1>2, <1>3

LEMMA VerifyNickKeeps ==
    ASSUME TypeInv, IdentityInv, NEW i \in 1..Len(tasks), VerifyNick(i)
    PROVE  IdentityInv'
<1> DEFINE t == tasks[i]
           p == t.f.plain
<1>1. AppendsFor(t)
  BY VerifyNickSteps DEF ResumeStep
<1>2. ShowNothing /\ UNCHANGED <<fpByConn, conflictWarned, mismatched>>
  BY DEF VerifyNick, ShowNothing, ghostVars
<1>3. PinsKept
  <2>1. CASE nickToFp' = nickToFp
    BY <2>1 DEF PinsKept, IdentityInv, PinsInv
  <2>2. CASE p.pk # NoPk /\ Pin(p.nick, fpOf(p.pk))
    <3>1. fpOf(p.pk) # None
      BY <2>2, TaskTypes, StoreAssumption
    <3> QED BY <2>2, <3>1, PinProperties DEF IdentityInv
  <2> QED
    BY <2>1, <2>2 DEF VerifyNick, verifyIdentity
<1> QED
  BY <1>1, <1>2, <1>3, ShowNothingNeutral, NeutralKeeps

LEMMA IdentityResume ==
    ASSUME TypeInv, IdentityInv, NEW i \in 1..Len(tasks), Resume(i)
    PROVE  IdentityInv'
<1>1. AppendsFor(tasks[i])
  BY ResumeSteps DEF ResumeStep
<1>2. ASSUME AllNeutral, UNCHANGED identVars PROVE IdentityInv'
  <2>1. PinsKept
    BY <1>2 DEF identVars, PinsKept, IdentityInv, PinsInv
  <2> QED
    BY <1>1, <1>2, <2>1, NeutralKeeps DEF identVars
<1>3. CASE DecryptMessage(i)
  BY <1>2, <1>3, DecryptMessageNeutral DEF DecryptMessage
<1>4. CASE DecryptKeyUpdate(i)
  <2>1. ShowNothing /\ UNCHANGED identVars
    BY <1>4 DEF DecryptKeyUpdate, ShowNothing, ghostVars
  <2> QED BY <1>2, <2>1, ShowNothingNeutral
<1>5. CASE DecryptRoomName(i)
  BY <1>2, <1>5, DecryptRoomNameNeutral DEF DecryptRoomName
<1>6. CASE DecryptNick(i)
  BY <1>2, <1>6, ShowNothingNeutral DEF DecryptNick
<1>7. CASE ImportNewKey(i)
  BY <1>2, <1>7, ImportNewKeyNeutral DEF ImportNewKey
<1> QED
  BY <1>3, <1>4, <1>5, <1>6, <1>7, VerifyMessageKeeps, VerifyNickKeeps DEF Resume

LEMMA IdentityInit == Init => IdentityInv
<1> SUFFICES ASSUME Init PROVE IdentityInv
  OBVIOUS
<1>1. Len(messages) = 0 /\ DOMAIN nickToFp = {} /\ DOMAIN fpByConn = {} /\ conflictWarned = {}
  BY DEF Init
<1> QED
  BY <1>1 DEF IdentityInv, PinsInv, ConnectionsInv, NoticesInv, Attributed

LEMMA IdentityNext == TypeInv /\ IdentityInv /\ [Next]_vars => IdentityInv'
<1> SUFFICES ASSUME TypeInv, IdentityInv, [Next]_vars PROVE IdentityInv'
  OBVIOUS
<1>1. ASSUME UNCHANGED <<messages, identVars>> PROVE IdentityInv'
  <2>1. UNCHANGED <<messages, nickToFp, fpByConn, conflictWarned, mismatched>>
    BY <1>1 DEF identVars
  <2>2. PinsInv'
    BY <2>1 DEF IdentityInv, PinsInv
  <2>3. ConnectionsInv'
    BY <2>1 DEF IdentityInv, ConnectionsInv, Attributed
  <2>4. NoticesInv'
    BY <2>1 DEF IdentityInv, NoticesInv
  <2> QED BY <2>2, <2>3, <2>4 DEF IdentityInv
<1>2. ASSUME NEW f \in Frames, Deliver(f) PROVE IdentityInv'
  <2>1. AppendsFor(Task(f)) /\ UNCHANGED identVars
    BY <1>2, DeliverSteps
  <2>2. AllNeutral
    BY <1>2, DeliverNeutral
  <2>3. PinsKept
    BY <2>1 DEF identVars, PinsKept, IdentityInv, PinsInv
  <2> QED
    BY <2>1, <2>2, <2>3, NeutralKeeps DEF identVars
<1>3. ASSUME NEW k \in Keys, UpdateCrypto(k) PROVE IdentityInv'
  BY <1>1, <1>3 DEF UpdateCrypto, ShowNothing
<1>4. CASE UNCHANGED vars
  BY <1>1, <1>4 DEF vars
<1> QED
  BY <1>2, <1>3, <1>4, IdentityResume DEF Next

LEMMA IdentityHolds == Spec => []IdentityInv
  BY TypeInvHolds, IdentityInit, IdentityNext, PTL DEF Spec

(* Trust on first use: a nick has one owner that is ever shown as          *)
(* verified, in whatever order the checks of its claims end.               *)
THEOREM NicksHaveOneOwner == Spec => []VerifiedNicksUnique
<1>1. IdentityInv => VerifiedNicksUnique
  BY DEF IdentityInv, PinsInv, VerifiedNicksUnique, Attributed
<1> QED
  BY <1>1, IdentityHolds, PTL

(* A contested nick is announced once for each identity that claims it,    *)
(* and two identities on one connection always raise the warning.          *)
THEOREM ConflictsAreShown == Spec => []ImpersonationShown
<1>1. IdentityInv => ImpersonationShown
  <2> SUFFICES ASSUME IdentityInv PROVE ImpersonationShown
    OBVIOUS
  <2>1. ASSUME NEW i \in Attributed, messages[i].status = "conflict"
        PROVE  Cardinality({j \in 1..Len(messages) :
                  /\ messages[j].status = "system" /\ messages[j].text = "identity conflict"
                  /\ messages[j].nick = messages[i].nick /\ messages[j].fp = messages[i].fp}) = 1
    <3> DEFINE notices == {j \in 1..Len(messages) :
                  /\ messages[j].status = "system" /\ messages[j].text = "identity conflict"
                  /\ messages[j].nick = messages[i].nick /\ messages[j].fp = messages[i].fp}
    <3>1. <<messages[i].nick, messages[i].fp>> \in conflictWarned
      BY <2>1 DEF Attributed, IdentityInv, NoticesInv
    <3>2. PICK j \in 1..Len(messages) : \A k \in 1..Len(messages) :
                 Notice(messages[k], messages[i].nick, messages[i].fp) <=> k = j
      BY <3>1 DEF IdentityInv, NoticesInv
    <3>3. notices = {j}
      BY <3>2 DEF Notice
    <3> QED
      BY <3>3, FS_Singleton
  <2>2. ASSUME NEW i \in Attributed, NEW j \in Attributed,
               messages[i].from = messages[j].from, messages[i].fp # messages[j].fp
        PROVE  messages[i].from \in mismatched
    BY <2>2 DEF IdentityInv, ConnectionsInv
  <2> QED
    BY <2>1, <2>2 DEF ImpersonationShown
<1> QED
  BY <1>1, IdentityHolds, PTL

-----------------------------------------------------------------------------
(* Payloads keep to the kind of their frame *)

(* The entry's text is a placeholder or that of a message sent under its id. *)
Sourced(e) ==
    \/ e.text \in Placeholders
    \/ \E f \in Frames :
          /\ f.kind = "message" /\ f.mid = e.mid
          /\ \/ f.plain.t = "msg" /\ e.text = f.plain.text
             \/ f.plain.t = None /\ e.text = AsItStands(f.plain)

AllSourced == \A n \in New : Sourced(messages'[n])

(* What a run has found in the payload before it waits for the signature. *)
Parsed(f) ==
    /\ f.kind = "message" => parseSignedMessage(f.plain)
    /\ f.kind = "nickname_updated" => unwrapNick(f.plain) /\ NickIsSigned(f.plain)

WaitingParsed == \A i \in 1..Len(tasks) : tasks[i].stage = "verify" => Parsed(tasks[i].f)

NameClaimed ==
    roomName # None =>
        \E f \in Frames : f.kind = "room_name_updated" /\ f.plain.t = "room_name" /\ f.plain.name = roomName

(* The frame f gives the client c the nick. *)
ClaimsNick(f, c, nick) ==
    /\ f.kind = "nickname_updated" /\ f.plain.t = "nick"
    /\ f.from = c /\ f.plain.nick = nick
    /\ NickIsSigned(f.plain) =>
          verifyIdentity(f.plain.pk, f.plain.sig, nickSigData(ChannelId, f.plain.nick))

NicksClaimed == \A c \in DOMAIN peerNicks : \E f \in Frames : ClaimsNick(f, c, peerNicks[c])

KindInv ==
    /\ \A i \in 1..Len(messages) : Sourced(messages[i])
    /\ WaitingParsed
    /\ NameClaimed
    /\ NicksClaimed

LEMMA EndTaskParsed ==
    ASSUME TypeInv, WaitingParsed, NEW i \in 1..Len(tasks), EndTask(i)
    PROVE  WaitingParsed'
<1>1. OneLess(tasks', tasks, Tasks)
  BY RemoveAtProperties DEF EndTask, TypeInv
<1>2. \A j \in 1..Len(tasks') : \E k \in 1..Len(tasks) : tasks'[j] = tasks[k]
  BY <1>1 DEF OneLess
<1> QED
  BY <1>2 DEF WaitingParsed, Parsed

LEMMA AwaitParsed ==
    ASSUME TypeInv, WaitingParsed, NEW i \in 1..Len(tasks), NEW stage \in {"verify", "import"},
           Await(i, stage), stage = "verify" => Parsed(tasks[i].f)
    PROVE  WaitingParsed'
<1>1. tasks \in Seq(Tasks) /\ tasks[i] \in Tasks
  BY DEF TypeInv
<1>2. tasks' = [tasks EXCEPT ![i] = [tasks[i] EXCEPT !.stage = stage]]
  BY <1>1 DEF Await
<1>3. Len(tasks') = Len(tasks)
  BY <1>1, <1>2
<1>4. \A j \in 1..Len(tasks) : j # i => tasks'[j] = tasks[j]
  BY <1>1, <1>2
<1>5. tasks'[i].f = tasks[i].f /\ tasks'[i].stage = stage
  BY <1>1, <1>2 DEF Tasks
<1> QED
  BY <1>3, <1>4, <1>5 DEF WaitingParsed, Parsed

LEMMA ShowAllSourced ==
    ASSUME TypeInv, NEW S, Entries \subseteq S, NEW es \in Seq(S),
           \A n \in 1..Len(es) : Sourced(es[n]), ShowAll(es)
    PROVE  AllSourced
<1>1. messages \in Seq(S) /\ Len(messages) \in Nat /\ Len(es) \in Nat
  BY DEF TypeInv
<1>2. messages' = messages \o es
  BY DEF ShowAll
<1>3. Len(messages') = Len(messages) + Len(es)
  BY <1>1, <1>2
<1>4. ASSUME NEW n \in New PROVE Sourced(messages'[n])
  <2>1. n \in Int /\ n > Len(messages) /\ n <= Len(messages) + Len(es)
    BY <1>1, <1>3 DEF New
  <2>2. messages'[n] = es[n - Len(messages)] /\ n - Len(messages) \in 1..Len(es)
    BY <1>1, <1>2, <2>1
  <2> QED BY <2>2
<1> QED
  BY <1>4 DEF AllSourced

LEMMA ShowSourced ==
    ASSUME TypeInv, NEW e, Sourced(e), Show(e)
    PROVE  AllSourced
<1>1. PICK S, es : S = Entries \cup {e} /\ es = <<e>>
  OBVIOUS
<1>2. Entries \subseteq S /\ es \in Seq(S) /\ \A n \in 1..Len(es) : es[n] = e
  BY <1>1
<1> QED
  BY <1>1, <1>2, ShowAllSourced DEF Show

LEMMA ShowNothingSourced ==
    ASSUME TypeInv, ShowNothing
    PROVE  AllSourced
  BY DEF ShowNothing, AllSourced, New

LEMMA PlaceholderSourced ==
    ASSUME NEW t, NEW text \in Placeholders, NEW status, NEW nick, NEW fp
    PROVE  Sourced(Entry(t, text, status, nick, fp))
  BY DEF Sourced, Entry

LEMMA TextSourced ==
    ASSUME NEW t, NEW status, NEW nick, NEW fp, t.f \in Frames, t.f.kind = "message",
           t.f.plain.t = "msg"
    PROVE  Sourced(Entry(t, t.f.plain.text, status, nick, fp))
  BY DEF Sourced, Entry

LEMMA UntaggedSourced ==
    ASSUME NEW t, NEW status, NEW nick, NEW fp, t.f \in Frames, t.f.kind = "message",
           t.f.plain.t = None
    PROVE  Sourced(Entry(t, AsItStands(t.f.plain), status, nick, fp))
  BY DEF Sourced, Entry

(* The timeline is only extended, by entries that have a source. *)
LEMMA SourcedKept ==
    ASSUME TypeInv, NEW t, AppendsFor(t), AllSourced, \A i \in 1..Len(messages) : Sourced(messages[i])
    PROVE  \A i \in 1..Len(messages') : Sourced(messages'[i])
<1> SUFFICES ASSUME NEW i \in 1..Len(messages') PROVE Sourced(messages'[i])
  OBVIOUS
<1>1. CASE i \in 1..Len(messages)
  <2>1. messages'[i] = messages[i]
    BY <1>1 DEF AppendsFor
  <2> QED BY <1>1, <2>1
<1>2. CASE i \notin 1..Len(messages)
  BY <1>2 DEF New, AllSourced
<1> QED
  BY <1>1, <1>2

LEMMA SetNickClaimed ==
    ASSUME NicksClaimed, NEW f \in Frames, ClaimsNick(f, f.from, f.plain.nick), SetNick(f)
    PROVE  NicksClaimed'
<1>1. /\ DOMAIN peerNicks' = DOMAIN peerNicks \cup {f.from}
      /\ peerNicks'[f.from] = f.plain.nick
      /\ \A c \in DOMAIN peerNicks \ {f.from} : peerNicks'[c] = peerNicks[c]
  <2>1. PICK g : g = With(peerNicks, f.from, f.plain.nick)
    OBVIOUS
  <2>2. /\ DOMAIN g = DOMAIN peerNicks \cup {f.from}
        /\ g[f.from] = f.plain.nick
        /\ \A c \in DOMAIN peerNicks \ {f.from} : g[c] = peerNicks[c]
    BY <2>1 DEF With
  <2>3. peerNicks' = g
    BY <2>1 DEF SetNick
  <2> QED BY <2>2, <2>3
<1>2. ASSUME NEW c \in DOMAIN peerNicks' PROVE \E g \in Frames : ClaimsNick(g, c, peerNicks'[c])
  <2>1. CASE c = f.from
    BY <1>1, <2>1
  <2>2. CASE c # f.from
    <3>1. c \in DOMAIN peerNicks /\ peerNicks'[c] = peerNicks[c]
      BY <1>1, <1>2, <2>2
    <3> QED BY <3>1 DEF NicksClaimed
  <2> QED BY <2>1, <2>2
<1> QED
  BY <1>2 DEF NicksClaimed, ClaimsNick

LEMMA DecryptMessageKind ==
    ASSUME TypeInv, KindInv, NEW i \in 1..Len(tasks), DecryptMessage(i)
    PROVE  AllSourced /\ WaitingParsed'
<1> DEFINE t == tasks[i]
           p == t.f.plain
           class == IF Decrypts(t) THEN MessageClass(p) ELSE "failed"
<1>1. class \in {"signed", "stale", "ignored", "raw", "failed"}
  BY DEF MessageClass
<1>2. t.f \in Frames /\ t.f.kind = "message" /\ WaitingParsed
  BY TaskTypes DEF DecryptMessage, Waiting, KindInv
<1>3. CASE class = "signed"
  <2>1. Await(i, "verify") /\ ShowNothing
    BY <1>3 DEF DecryptMessage
  <2>2. parseSignedMessage(p)
    BY <1>3 DEF MessageClass
  <2>3. Parsed(t.f)
    BY <1>2, <2>2 DEF Parsed
  <2> QED
    BY <1>2, <2>1, <2>3, AwaitParsed, ShowNothingSourced
<1>4. CASE class # "signed"
  <2>1. WaitingParsed'
    BY <1>2, <1>4, EndTaskParsed DEF DecryptMessage
  <2>2. CASE class = "stale"
    <3>1. Show(Entry(t, "stale signature", "invalid", None, fpOf(p.pk)))
      BY <2>2 DEF DecryptMessage
    <3> QED BY <2>1, <3>1, PlaceholderSourced, Literals, ShowSourced
  <2>3. CASE class = "raw"
    <3>1. Show(Entry(t, AsItStands(p), "unsigned", None, None))
      BY <2>3 DEF DecryptMessage
    <3>2. p.t = None
      BY <1>2, <2>3, StoreAssumption DEF MessageClass, isUnknownStructuredPayload
    <3>3. Sourced(Entry(t, AsItStands(p), "unsigned", None, None))
      BY <1>2, <3>2, UntaggedSourced
    <3> QED BY <2>1, <3>1, <3>3, ShowSourced
  <2>4. CASE class = "failed"
    <3>1. Show(Entry(t, "decrypt failed", "unsigned", None, None))
      BY <2>4 DEF DecryptMessage
    <3> QED BY <2>1, <3>1, PlaceholderSourced, Literals, ShowSourced
  <2>5. CASE class = "ignored"
    <3>1. ShowNothing
      BY <2>5 DEF DecryptMessage
    <3> QED BY <2>1, <3>1, ShowNothingSourced
  <2> QED
    BY <1>1, <1>4, <2>2, <2>3, <2>4, <2>5
<1> QED
  BY <1>3, <1>4

LEMMA DecryptKeyUpdateKind ==
    ASSUME TypeInv, KindInv, NEW i \in 1..Len(tasks), DecryptKeyUpdate(i)
    PROVE  AllSourced /\ WaitingParsed' /\ NameClaimed' /\ NicksClaimed'
<1>1. ShowNothing /\ UNCHANGED <<roomName, peerNicks>>
  BY DEF DecryptKeyUpdate, ShowNothing, ghostVars, nameVars
<1>2. WaitingParsed'
  BY AwaitParsed, EndTaskParsed DEF DecryptKeyUpdate, KindInv
<1> QED
  BY <1>1, <1>2, ShowNothingSourced DEF KindInv, NameClaimed, NicksClaimed

LEMMA DecryptRoomNameKind ==
    ASSUME TypeInv, KindInv, NEW i \in 1..Len(tasks), DecryptRoomName(i)
    PROVE  AllSourced /\ WaitingParsed' /\ NameClaimed' /\ NicksClaimed'
<1> DEFINE t == tasks[i]
           e == Entry(t, "room name", "system", None, None)
<1>1. WaitingParsed' /\ peerNicks' = peerNicks
  BY EndTaskParsed DEF DecryptRoomName, KindInv
<1>2. AllSourced
  <2>1. ShowNothing \/ Show(e)
    BY DEF DecryptRoomName
  <2>2. Sourced(e)
    BY PlaceholderSourced, Literals
  <2> HIDE DEF e
  <2> QED BY <2>1, <2>2, ShowSourced, ShowNothingSourced
<1>3. NameClaimed'
  <2>1. CASE roomName' = roomName
    BY <2>1 DEF KindInv, NameClaimed
  <2>2. CASE unwrapRoomName(t.f.plain) /\ roomName' = t.f.plain.name
    <3>1. t.f \in Frames /\ t.f.kind = "room_name_updated" /\ t.f.plain.t = "room_name"
      BY <2>2, TaskTypes DEF DecryptRoomName, Waiting, unwrapRoomName
    <3> QED BY <2>2, <3>1 DEF NameClaimed
  <2> QED
    BY <2>1, <2>2 DEF DecryptRoomName
<1> QED
  BY <1>1, <1>2, <1>3 DEF KindInv, NicksClaimed

(* An unsigned claim is taken, a signed one waits for its check. *)
LEMMA DecryptNickKind ==
    ASSUME TypeInv, KindInv, NEW i \in 1..Len(tasks), DecryptNick(i)
    PROVE  AllSourced /\ WaitingParsed' /\ NameClaimed' /\ NicksClaimed'
<1> DEFINE f == tasks[i].f
<1>1. ShowNothing /\ roomName' = roomName
  BY DEF DecryptNick
<1>2. f \in Frames /\ f.kind = "nickname_updated" /\ WaitingParsed /\ NicksClaimed
  BY TaskTypes DEF DecryptNick, Waiting, KindInv
<1>3. CASE unwrapNick(f.plain) /\ NickIsSigned(f.plain) /\ Await(i, "verify") /\ UNCHANGED peerNicks
  <2>1. WaitingParsed'
    BY <1>2, <1>3, AwaitParsed DEF Parsed
  <2> QED
    BY <1>1, <1>2, <1>3, <2>1, ShowNothingSourced DEF KindInv, NameClaimed, NicksClaimed
<1>4. CASE unwrapNick(f.plain) /\ ~NickIsSigned(f.plain) /\ EndTask(i) /\ SetNick(f)
  <2>1. WaitingParsed'
    BY <1>2, <1>4, EndTaskParsed
  <2>2. ClaimsNick(f, f.from, f.plain.nick)
    BY <1>2, <1>4 DEF ClaimsNick, unwrapNick
  <2>3. NicksClaimed'
    BY <1>2, <1>4, <2>2, SetNickClaimed
  <2> QED
    BY <1>1, <2>1, <2>3, ShowNothingSourced DEF KindInv, NameClaimed
<1>5. CASE EndTask(i) /\ UNCHANGED peerNicks
  <2>1. WaitingParsed'
    BY <1>2, <1>5, EndTaskParsed
  <2> QED
    BY <1>1, <1>2, <1>5, <2>1, ShowNothingSourced DEF KindInv, NameClaimed, NicksClaimed
<1> QED
  BY <1>3, <1>4, <1>5 DEF DecryptNick

LEMMA VerifyMessageKind ==
    ASSUME TypeInv, KindInv, NEW i \in 1..Len(tasks), VerifyMessage(i)
    PROVE  AllSourced /\ WaitingParsed'
<1> DEFINE t == tasks[i]
           p == t.f.plain
           fp == fpOf(p.pk)
           status == StatusOf(p.nick, fp)
           e == Entry(t, p.text, status, p.nick, fp)
           d == [e EXCEPT !.text = "identity conflict", !.status = "system"]
           bad == Entry(t, "invalid signature", "invalid", p.nick, fp)
<1>1. WaitingParsed'
  BY EndTaskParsed DEF VerifyMessage, KindInv
<1>2. Show(e) \/ ShowAll(<<e, d>>) \/ Show(bad)
  BY DEF VerifyMessage
<1>3. Sourced(e)
  <2>1. t.f \in Frames /\ t.f.kind = "message" /\ t.stage = "verify"
    BY TaskTypes DEF VerifyMessage, Waiting
  <2>2. p.t = "msg"
    BY <2>1 DEF KindInv, WaitingParsed, Parsed, parseSignedMessage
  <2> HIDE DEF status
  <2> QED BY <2>1, <2>2, TextSourced
<1>4. Sourced(bad)
  BY PlaceholderSourced, Literals
<1>5. Sourced(d)
  <2>1. d.text = "identity conflict"
    BY DEF Entry
  <2> HIDE DEF d
  <2> QED BY <2>1, Literals DEF Sourced
<1> HIDE DEF e, d, bad
<1>6. CASE ShowAll(<<e, d>>)
  <2>1. PICK S, es : S = Entries \cup {e, d} /\ es = <<e, d>>
    OBVIOUS
  <2>2. Entries \subseteq S /\ es \in Seq(S) /\ \A n \in 1..Len(es) : es[n] = e \/ es[n] = d
    BY <2>1
  <2>3. AllSourced
    BY <1>3, <1>5, <1>6, <2>1, <2>2, ShowAllSourced
  <2> QED BY <1>1, <2>3
<1> QED
  BY <1>1, <1>2, <1>3, <1>4, <1>6, ShowSourced

(* The signature that was waited for is the one of the payload's fields. *)
LEMMA VerifyNickKind ==
    ASSUME TypeInv, KindInv, NEW i \in 1..Len(tasks), VerifyNick(i)
    PROVE  AllSourced /\ WaitingParsed' /\ NameClaimed' /\ NicksClaimed'
<1> DEFINE f == tasks[i].f
<1>1. ShowNothing /\ roomName' = roomName
  BY DEF VerifyNick, ShowNothing, ghostVars
<1>2. WaitingParsed'
  BY EndTaskParsed DEF VerifyNick, KindInv
<1>3. f \in Frames /\ f.kind = "nickname_updated" /\ f.plain.t = "nick" /\ NicksClaimed
  BY TaskTypes DEF VerifyNick, Waiting, KindInv, WaitingParsed, Parsed, unwrapNick
<1>4. CASE verifyIdentity(f.plain.pk, f.plain.sig, nickSigData(ChannelId, f.plain.nick)) /\ SetNick(f)
  <2>1. ClaimsNick(f, f.from, f.plain.nick)
    BY <1>3, <1>4 DEF ClaimsNick
  <2> QED
    BY <1>1, <1>2, <1>3, <1>4, <2>1, SetNickClaimed, ShowNothingSourced DEF KindInv, NameClaimed
<1>5. CASE UNCHANGED peerNicks
  BY <1>1, <1>2, <1>3, <1>5, ShowNothingSourced DEF KindInv, NameClaimed, NicksClaimed
<1> QED
  BY <1>4, <1>5 DEF VerifyNick

LEMMA KindResume ==
    ASSUME TypeInv, KindInv, NEW i \in 1..Len(tasks), Resume(i)
    PROVE  KindInv'
<1>1. AppendsFor(tasks[i])
  BY ResumeSteps DEF ResumeStep
<1>2. SUFFICES AllSourced /\ WaitingParsed' /\ NameClaimed' /\ NicksClaimed'
  BY <1>1, SourcedKept DEF KindInv
<1>3. ASSUME UNCHANGED nameVars PROVE NameClaimed' /\ NicksClaimed'
  BY <1>3 DEF nameVars, KindInv, NameClaimed, NicksClaimed
<1>4. CASE DecryptMessage(i)
  BY <1>3, <1>4, DecryptMessageKind DEF DecryptMessage
<1>5. CASE VerifyMessage(i)
  BY <1>3, <1>5, VerifyMessageKind DEF VerifyMessage
<1>6. CASE ImportNewKey(i)
  <2> DEFINE e == Entry(tasks[i], "key rotation", "system", None, None)
  <2>1. Show(e) /\ EndTask(i) /\ UNCHANGED nameVars
    BY <1>6 DEF ImportNewKey
  <2>2. Sourced(e)
    BY PlaceholderSourced, Literals
  <2> HIDE DEF e
  <2> QED BY <1>3, <2>1, <2>2, ShowSourced, EndTaskParsed DEF KindInv
<1> QED
  BY <1>4, <1>5, <1>6, DecryptKeyUpdateKind, DecryptRoomNameKind, DecryptNickKind,
     VerifyNickKind DEF Resume

LEMMA KindDeliver ==
    ASSUME TypeInv, KindInv, NEW f \in Frames, Deliver(f)
    PROVE  KindInv'
<1>1. AppendsFor(Task(f)) /\ NoContents
  BY DeliverSteps
<1>2. AllSourced
  BY <1>1 DEF NoContents, AllSourced, Sourced
<1>3. WaitingParsed'
  <2>1. tasks \in Seq(Tasks) /\ Task(f) \in Tasks /\ Task(f).stage = "decrypt"
    BY TaskProperties DEF TypeInv
  <2>2. CASE tasks' = tasks
    BY <2>2 DEF KindInv, WaitingParsed, Parsed
  <2>3. CASE tasks' = Append(tasks, Task(f))
    <3>1. \A j \in 1..Len(tasks') : (j \in 1..Len(tasks) /\ tasks'[j] = tasks[j]) \/ tasks'[j] = Task(f)
      BY <2>1, <2>3
    <3> QED BY <2>1, <3>1 DEF KindInv, WaitingParsed, Parsed
  <2> QED BY <2>2, <2>3, DeliverSteps
<1>4. NameClaimed' /\ NicksClaimed'
  BY DEF Deliver, nameVars, KindInv, NameClaimed, NicksClaimed
<1> QED
  BY <1>1, <1>2, <1>3, <1>4, SourcedKept DEF KindInv

LEMMA KindInit == Init => KindInv
<1> SUFFICES ASSUME Init PROVE KindInv
  OBVIOUS
<1>1. Len(messages) = 0 /\ Len(tasks) = 0 /\ roomName = None /\ DOMAIN peerNicks = {}
  BY DEF Init
<1> QED
  BY <1>1 DEF KindInv, WaitingParsed, NameClaimed, NicksClaimed

LEMMA KindNext == TypeInv /\ KindInv /\ [Next]_vars => KindInv'
<1> SUFFICES ASSUME TypeInv, KindInv, [Next]_vars PROVE KindInv'
  OBVIOUS
<1>1. ASSUME UNCHANGED <<messages, tasks, nameVars>> PROVE KindInv'
  <2>1. UNCHANGED <<messages, tasks, roomName, peerNicks>>
    BY <1>1 DEF nameVars
  <2>2. \A i \in 1..Len(messages') : Sourced(messages'[i])
    BY <2>1 DEF KindInv
  <2>3. WaitingParsed' /\ NameClaimed' /\ NicksClaimed'
    BY <2>1 DEF KindInv, WaitingParsed, Parsed, NameClaimed, NicksClaimed
  <2> QED BY <2>2, <2>3 DEF KindInv
<1>2. ASSUME NEW k \in Keys, UpdateCrypto(k) PROVE KindInv'
  BY <1>1, <1>2 DEF UpdateCrypto, ShowNothing
<1>3. CASE UNCHANGED vars
  BY <1>1, <1>3 DEF vars
<1> QED
  BY <1>2, <1>3, KindResume, KindDeliver DEF Next

(* A payload acts as the frame that carried it says, though the handler    *)
(* waits between reading the payload and acting on it.                     *)
THEOREM PayloadsAct == Spec => []PayloadsKeepKind
<1>1. KindInv => PayloadsKeepKind
  <2> SUFFICES ASSUME KindInv PROVE PayloadsKeepKind
    OBVIOUS
  <2>1. \A i \in Contents : Sourced(messages[i]) /\ messages[i].text \notin Placeholders
    BY DEF KindInv, Contents
  <2> QED
    BY <2>1 DEF KindInv, Sourced, NameClaimed, NicksClaimed, ClaimsNick, PayloadsKeepKind
<1> QED
  BY <1>1, TypeInvHolds, KindInit, KindNext, PTL DEF Spec

=============================================================================
