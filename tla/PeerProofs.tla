---------------------------- MODULE PeerProofs ----------------------------
(***************************************************************************)
(* What the members of a room tell each other about its key, its name and  *)
(* their nicks, for any number of members, names and rotations; and the    *)
(* formats they tell it in, for fields of any length.                      *)
(***************************************************************************)
EXTENDS MCRoomSync, MCFormats, FiniteSetTheorems, FunctionTheorems, SequenceTheorems, TLAPS

-----------------------------------------------------------------------------
(* The key *)

Update == [old : Nat, new : Nat]
Run == [update : Update, key : Nat, stage : {"decrypt", "import"}]

KeyTypes ==
    /\ crypto \in [Trio -> Nat] /\ roomKeys \in [Trio -> Nat] /\ roomKeyB64 \in [Trio -> Nat]
    /\ rotation \in [Trio -> Update]
    /\ wire \in [Trio -> [Trio -> Seq(Update)]]
    /\ tasks \in [Trio -> SUBSET Run]
    /\ imports \in [Trio -> SUBSET Nat]
    /\ lastKey \in Nat

(* Member m has nothing under way that would change its key. *)
Resting(m) == roomKeys[m] = crypto[m] /\ tasks[m] = {} /\ imports[m] = {}

(* Member m has key k, unless an update was refused. *)
HasKey(m, k) == unsent \/ crypto[m] = k

Silent == \A s, r \in Trio : wire[s][r] = <<>>

AllAt(k) ==
    /\ \A m \in Trio : rotation[m] = Key!Idle /\ Resting(m) /\ HasKey(m, k)
    /\ Silent

(* The only rotation, of a room with key k to n, has been begun by s. *)
Begun(s, k, n) ==
    /\ n # 0
    /\ rotation[s] = [old |-> crypto[s], new |-> n]
    /\ \A m \in Trio : Resting(m) /\ HasKey(m, k) /\ (m # s => rotation[m] = Key!Idle)
    /\ Silent

(* On its way from s to r the update u is in one place: the wire, a run of *)
(* the handler, the App's import; then it has arrived.                     *)
Getting(s, r, k, u) ==
    \/ wire[s][r] = <<u>> /\ Resting(r) /\ HasKey(r, k)
    \/ /\ wire[s][r] = <<>> /\ imports[r] = {} /\ roomKeys[r] = crypto[r] /\ HasKey(r, k)
       /\ \E stage \in {"decrypt", "import"} :
             tasks[r] = {[update |-> u, key |-> crypto[r], stage |-> stage]}
    \/ wire[s][r] = <<>> /\ tasks[r] = {} /\ imports[r] = {u.new} /\ crypto[r] = u.new
    \/ wire[s][r] = <<>> /\ Resting(r) /\ HasKey(r, u.new)

Sent(s, k, u) ==
    /\ unsent \/ u.old = k
    /\ \A m \in Trio : rotation[m] = Key!Idle
    /\ Resting(s) /\ HasKey(s, u.new)
    /\ \A x, r \in Trio : x # s \/ r = s => wire[x][r] = <<>>
    /\ \A r \in Trio : r # s => Getting(s, r, k, u)

(* One rotation at most is under way. *)
InStep ==
    \/ \E k \in Nat : AllAt(k)
    \/ \E s \in Trio, k, n \in Nat : Begun(s, k, n)
    \/ \E s \in Trio, k \in Nat, u \in Update : Sent(s, k, u)

KeyInv == KeyTypes /\ roomKeyB64 = crypto /\ (overlapped \/ InStep)

LEMMA KeyInit == SyncInit => KeyInv
<1> SUFFICES ASSUME Key!Init PROVE KeyInv
  BY DEF SyncInit
<1>1. KeyTypes /\ roomKeyB64 = crypto
  BY DEF Key!Init, Key!Idle, KeyTypes, Update
<1>2. AllAt(0)
  BY DEF Key!Init, AllAt, Resting, HasKey, Silent
<1> QED
  BY <1>1, <1>2 DEF KeyInv, InStep

LEMMA KeyTypesNext == KeyTypes /\ Key!Next => KeyTypes'
<1> SUFFICES ASSUME KeyTypes, NEW m \in Trio,
                    \/ Key!StartRotate(m) \/ Key!AbortRotate(m)
                    \/ Key!SendRotate(m) \/ Key!RefuseRotate(m)
                    \/ \E r \in Trio : Key!Receive(m, r)
                    \/ \E t \in tasks[m] : Key!Unwrap(m, t) \/ Key!AdoptUpdate(m, t)
                    \/ \E k \in imports[m] : Key!Imported(m, k)
             PROVE  KeyTypes'
  BY DEF Key!Next
<1> USE DEF KeyTypes
<1>1. CASE Key!StartRotate(m)
  BY <1>1 DEF Key!StartRotate, Key!keyVars, Update
<1>2. CASE Key!SendRotate(m) \/ Key!RefuseRotate(m)
  <2>0. Key!Adopted(m)
    BY <1>2 DEF Key!SendRotate, Key!RefuseRotate
  <2>1. wire' \in [Trio -> [Trio -> Seq(Update)]]
    <3>1. CASE Key!SendRotate(m)
      BY <3>1 DEF Key!SendRotate
    <3>2. CASE Key!RefuseRotate(m)
      BY <3>2 DEF Key!RefuseRotate
    <3> QED BY <1>2, <3>1, <3>2
  <2>2. rotation' \in [Trio -> Update]
    BY <2>0 DEF Key!Adopted, Key!Idle, Update
  <2>3. /\ crypto' \in [Trio -> Nat] /\ roomKeys' \in [Trio -> Nat]
        /\ roomKeyB64' \in [Trio -> Nat]
    BY <2>0 DEF Key!Adopted, Key!AdoptOwn, Update
  <2> QED
    BY <2>0, <2>1, <2>2, <2>3 DEF Key!Adopted
<1>7. CASE Key!AbortRotate(m)
  <2>1. rotation' \in [Trio -> Update]
    BY <1>7 DEF Key!AbortRotate, Key!Idle, Update
  <2> QED
    BY <1>7, <2>1 DEF Key!AbortRotate, Key!keyVars
<1>3. ASSUME NEW r \in Trio, Key!Receive(m, r) PROVE KeyTypes'
  <2>1. wire' \in [Trio -> [Trio -> Seq(Update)]] /\ Head(wire[m][r]) \in Update
    BY <1>3 DEF Key!Receive
  <2>2. [update |-> Head(wire[m][r]), key |-> crypto[r], stage |-> "decrypt"] \in Run
    BY <2>1 DEF Run
  <2>3. tasks' \in [Trio -> SUBSET Run]
    BY <1>3, <2>2 DEF Key!Receive
  <2> QED
    BY <1>3, <2>1, <2>3 DEF Key!Receive, Key!keyVars
<1>4. ASSUME NEW t \in tasks[m], Key!Unwrap(m, t) PROVE KeyTypes'
  <2>1. t \in Run
    OBVIOUS
  <2>2. [t EXCEPT !.stage = "import"] \in Run
    BY <2>1 DEF Run
  <2>3. tasks' \in [Trio -> SUBSET Run]
    BY <1>4, <2>2 DEF Key!Unwrap
  <2> QED
    BY <1>4, <2>3 DEF Key!Unwrap, Key!keyVars
<1>5. ASSUME NEW t \in tasks[m], Key!AdoptUpdate(m, t) PROVE KeyTypes'
  <2>1. t.update.new \in Nat
    BY DEF Run, Update
  <2> QED
    BY <1>5, <2>1 DEF Key!AdoptUpdate, Key!OnKeyRotated
<1>6. ASSUME NEW k \in imports[m], Key!Imported(m, k) PROVE KeyTypes'
  <2>1. k \in Nat
    OBVIOUS
  <2> QED
    BY <1>6, <2>1 DEF Key!Imported
<1> QED
  BY <1>1, <1>2, <1>3, <1>4, <1>5, <1>6, <1>7

(* Text and cipher change together. *)
LEMMA TextFollows == KeyTypes /\ roomKeyB64 = crypto /\ Key!Next => roomKeyB64' = crypto'
<1> SUFFICES ASSUME KeyTypes, roomKeyB64 = crypto, Key!Next PROVE roomKeyB64' = crypto'
  OBVIOUS
<1>1. ASSUME NEW m \in Trio, Key!StartRotate(m) PROVE roomKeyB64' = crypto'
  BY <1>1 DEF Key!StartRotate, Key!keyVars
<1>2. ASSUME NEW m \in Trio, Key!SendRotate(m) \/ Key!RefuseRotate(m) PROVE roomKeyB64' = crypto'
  BY <1>2 DEF Key!SendRotate, Key!RefuseRotate, Key!Adopted, Key!AdoptOwn
<1>7. ASSUME NEW m \in Trio, Key!AbortRotate(m) PROVE roomKeyB64' = crypto'
  BY <1>7 DEF Key!AbortRotate, Key!keyVars
<1>3. ASSUME NEW m \in Trio, NEW r \in Trio, Key!Receive(m, r) PROVE roomKeyB64' = crypto'
  BY <1>3 DEF Key!Receive, Key!keyVars
<1>4. ASSUME NEW m \in Trio, NEW t \in tasks[m], Key!Unwrap(m, t) PROVE roomKeyB64' = crypto'
  BY <1>4 DEF Key!Unwrap, Key!keyVars
<1>5. ASSUME NEW m \in Trio, NEW t \in tasks[m], Key!AdoptUpdate(m, t) PROVE roomKeyB64' = crypto'
  BY <1>5 DEF Key!AdoptUpdate, Key!OnKeyRotated
<1>6. ASSUME NEW m \in Trio, NEW k \in imports[m], Key!Imported(m, k) PROVE roomKeyB64' = crypto'
  BY <1>6 DEF Key!Imported
<1> QED
  BY <1>1, <1>2, <1>3, <1>4, <1>5, <1>6, <1>7 DEF Key!Next

(* With everybody at rest after at most one rotation, the keys are equal. *)
LEMMA SettledInStep == KeyTypes /\ InStep /\ Key!Settled => \E k \in Nat : AllAt(k)
<1> SUFFICES ASSUME KeyTypes, InStep, Key!Settled, \A k \in Nat : ~AllAt(k) PROVE FALSE
  OBVIOUS
<1>1. \A m \in Trio : rotation[m] = Key!Idle /\ tasks[m] = {} /\ imports[m] = {}
  BY DEF Key!Settled
<1>2. \A x, r \in Trio : wire[x][r] = <<>>
  BY DEF Key!Settled
<1>3. \A s \in Trio, k, n \in Nat : ~Begun(s, k, n)
  BY <1>1 DEF Begun, Key!Idle
<1>4. PICK s \in Trio, k \in Nat, u \in Update : Sent(s, k, u)
  BY <1>3 DEF InStep
<1>5. ASSUME NEW r \in Trio PROVE Resting(r) /\ HasKey(r, u.new)
  <2>1. r = s \/ Getting(s, r, k, u)
    BY <1>4 DEF Sent
  <2>2. CASE r = s
    BY <1>4, <2>2 DEF Sent
  <2>3. CASE Getting(s, r, k, u)
    <3>1. <<u>> # <<>> /\ {u.new} # {}
      OBVIOUS
    <3>2. \A stage : {[update |-> u, key |-> crypto[r], stage |-> stage]} # {}
      OBVIOUS
    <3> QED BY <1>1, <1>2, <2>3, <3>1, <3>2 DEF Getting
  <2> QED BY <2>1, <2>2, <2>3
<1>6. u.new \in Nat
  BY DEF Update
<1> QED
  BY <1>1, <1>2, <1>5, <1>6 DEF AllAt, Silent

LEMMA InStepStart ==
    ASSUME KeyTypes, InStep, NEW m \in Trio, Key!StartRotate(m)
    PROVE  (overlapped \/ InStep)'
<1>1. CASE ~Key!Settled
  BY <1>1 DEF Key!StartRotate
<1>2. CASE Key!Settled
  <2>1. PICK k \in Nat : AllAt(k)
    BY <1>2, SettledInStep
  <2>2. PICK n \in Nat : n = lastKey + 1 /\ n # 0
    BY DEF KeyTypes
  <2>3. roomKeys[m] = crypto[m]
    BY <2>1 DEF AllAt, Resting
  <2>4. rotation' = [rotation EXCEPT ![m] = [old |-> crypto[m], new |-> n]]
    BY <2>2, <2>3 DEF Key!StartRotate
  <2>5. rotation'[m] = [old |-> crypto[m], new |-> n] /\ \A x \in Trio : x # m => rotation'[x] = rotation[x]
    BY <2>4 DEF KeyTypes
  <2>6. /\ crypto' = crypto /\ roomKeys' = roomKeys /\ tasks' = tasks /\ imports' = imports
        /\ wire' = wire /\ unsent' = unsent
    BY DEF Key!StartRotate, Key!keyVars
  <2>7. Begun(m, k, n)'
    BY <2>1, <2>2, <2>5, <2>6 DEF AllAt, Begun, Resting, HasKey, Silent
  <2> QED
    BY <2>7 DEF InStep
<1> QED
  BY <1>1, <1>2

(* Whoever is about to send has begun the only rotation. *)
LEMMA InStepBegun ==
    ASSUME KeyTypes, InStep, NEW m \in Trio, rotation[m] # Key!Idle
    PROVE  \E k, n \in Nat : Begun(m, k, n)
<1>1. \A k \in Nat : ~AllAt(k)
  BY DEF AllAt
<1>2. \A s \in Trio, k \in Nat, u \in Update : ~Sent(s, k, u)
  BY DEF Sent
<1>3. \A s \in Trio, k, n \in Nat : Begun(s, k, n) => s = m
  BY DEF Begun
<1> QED BY <1>1, <1>2, <1>3 DEF InStep

LEMMA InStepAbort ==
    ASSUME KeyTypes, InStep, NEW m \in Trio, Key!AbortRotate(m)
    PROVE  InStep'
<1>1. PICK k, n \in Nat : Begun(m, k, n)
  BY InStepBegun DEF Key!AbortRotate
<1>2. /\ crypto' = crypto /\ roomKeys' = roomKeys /\ tasks' = tasks /\ imports' = imports
      /\ wire' = wire /\ unsent' = unsent /\ \A r \in Trio : rotation'[r] = Key!Idle
  BY <1>1 DEF Begun, Key!AbortRotate, Key!keyVars, KeyTypes
<1>3. AllAt(k)'
  BY <1>1, <1>2 DEF Begun, AllAt, Resting, HasKey, Silent
<1> QED
  BY <1>3 DEF InStep

(* What the sender adopts *)
LEMMA InStepAdopted ==
    ASSUME KeyTypes, NEW m \in Trio, NEW k \in Nat, NEW n \in Nat, Begun(m, k, n), Key!Adopted(m)
    PROVE  /\ tasks' = tasks /\ imports' = imports /\ \A r \in Trio : rotation'[r] = Key!Idle
           /\ crypto'[m] = n /\ roomKeys'[m] = n
           /\ \A r \in Trio : r # m => crypto'[r] = crypto[r] /\ roomKeys'[r] = roomKeys[r]
<1>1. tasks' = tasks /\ imports' = imports /\ \A r \in Trio : rotation'[r] = Key!Idle
  BY DEF Begun, Key!Adopted, KeyTypes
<1>2. rotation[m].new = n
  BY DEF Begun
<1> QED
  BY <1>1, <1>2 DEF Key!Adopted, Key!AdoptOwn, KeyTypes

LEMMA InStepRefuse ==
    ASSUME KeyTypes, InStep, NEW m \in Trio, Key!RefuseRotate(m)
    PROVE  InStep'
<1>1. Key!Adopted(m) /\ unsent' = TRUE /\ wire' = wire
  BY DEF Key!RefuseRotate
<1>2. PICK k, n \in Nat : Begun(m, k, n)
  BY <1>1, InStepBegun DEF Key!Adopted
<1>3. AllAt(n)'
  BY <1>1, <1>2, InStepAdopted DEF Begun, AllAt, Resting, HasKey, Silent
<1> QED
  BY <1>3 DEF InStep

LEMMA InStepSend ==
    ASSUME KeyTypes, InStep, NEW m \in Trio, Key!SendRotate(m)
    PROVE  InStep'
<1>1. Key!Adopted(m) /\ unsent' = unsent
  BY DEF Key!SendRotate
<1>2. PICK k, n \in Nat : Begun(m, k, n)
  BY <1>1, InStepBegun DEF Key!Adopted
<1>3. PICK u \in Update : u = rotation[m]
  BY DEF KeyTypes
<1>4. u.old = crypto[m] /\ u.new = n
  BY <1>2, <1>3 DEF Begun
<1>5. \A x, r \in Trio : wire'[x][r] = IF x = m /\ r # m THEN <<u>> ELSE <<>>
  <2>1. /\ \A r \in Trio : wire'[m][r] = IF r = m THEN wire[m][r] ELSE Append(wire[m][r], u)
        /\ \A x \in Trio : x # m => wire'[x] = wire[x]
    BY <1>3 DEF Key!SendRotate, KeyTypes
  <2>2. \A x, r \in Trio : wire[x][r] = <<>>
    BY <1>2 DEF Begun, Silent
  <2>3. Append(<<>>, u) = <<u>>
    OBVIOUS
  <2> QED BY <2>1, <2>2, <2>3
<1>6. /\ tasks' = tasks /\ imports' = imports /\ \A r \in Trio : rotation'[r] = Key!Idle
      /\ crypto'[m] = n /\ roomKeys'[m] = n
      /\ \A r \in Trio : r # m => crypto'[r] = crypto[r] /\ roomKeys'[r] = roomKeys[r]
  BY <1>1, <1>2, InStepAdopted
<1>7. /\ \A r \in Trio : Resting(r) /\ HasKey(r, k)
      /\ unsent \/ u.old = k
  BY <1>2, <1>4 DEF Begun, HasKey
<1>8. Sent(m, k, u)'
  <2>1. Resting(m)' /\ HasKey(m, u.new)'
    BY <1>4, <1>6, <1>7 DEF Resting, HasKey
  <2>2. ASSUME NEW r \in Trio, r # m PROVE Getting(m, r, k, u)'
    BY <1>1, <1>5, <1>6, <1>7, <2>2 DEF Getting, Resting, HasKey
  <2> QED BY <1>1, <1>5, <1>6, <1>7, <2>1, <2>2 DEF Sent
<1> QED
  BY <1>8 DEF InStep

(* What happens at one receiver *)
LEMMA InStepReceiver ==
    ASSUME NEW s \in Trio, NEW k \in Nat, NEW u \in Update, NEW m \in Trio, Sent(s, k, u), m # s,
           rotation' = rotation, unsent' = unsent,
           Getting(s, m, k, u)',
           \A r \in Trio : r # m => /\ crypto'[r] = crypto[r] /\ roomKeys'[r] = roomKeys[r]
                                    /\ tasks'[r] = tasks[r] /\ imports'[r] = imports[r],
           \A x, r \in Trio : x # s \/ r # m => wire'[x][r] = wire[x][r]
    PROVE  InStep'
<1>1. ASSUME NEW r \in Trio, r # s PROVE Getting(s, r, k, u)'
  <2>1. CASE r = m
    BY <2>1
  <2>2. CASE r # m
    BY <1>1, <2>2 DEF Sent, Getting, Resting, HasKey
  <2> QED BY <2>1, <2>2
<1>2. Sent(s, k, u)'
  BY <1>1 DEF Sent, Resting, HasKey
<1> QED
  BY <1>2 DEF InStep

LEMMA InStepRest ==
    ASSUME KeyTypes, InStep, NEW m \in Trio,
           \/ \E x \in Trio : Key!Receive(x, m)
           \/ \E t \in tasks[m] : Key!Unwrap(m, t) \/ Key!AdoptUpdate(m, t)
           \/ \E j \in imports[m] : Key!Imported(m, j)
    PROVE  InStep'
<1>1. PICK s \in Trio, k \in Nat, u \in Update : Sent(s, k, u)
  BY DEF InStep, AllAt, Begun, Resting, Silent, Key!Receive
<1>2. m # s
  BY <1>1 DEF Sent, Resting, Key!Receive
<1>3. Getting(s, m, k, u) /\ \A x \in Trio : x # s => wire[x][m] = <<>>
  BY <1>1, <1>2 DEF Sent
<1>4. CASE \E x \in Trio : Key!Receive(x, m)
  <2>1. Key!Receive(s, m) /\ wire[s][m] # <<>>
    BY <1>3, <1>4 DEF Key!Receive
  <2>2. wire[s][m] = <<u>> /\ Resting(m) /\ HasKey(m, k)
    BY <1>3, <2>1 DEF Getting
  <2>3. Head(wire[s][m]) = u /\ Tail(wire[s][m]) = <<>>
    BY <2>2
  <2>4. /\ wire'[s][m] = <<>> /\ crypto' = crypto /\ roomKeys' = roomKeys /\ unsent' = unsent
        /\ tasks'[m] = {[update |-> u, key |-> crypto[m], stage |-> "decrypt"]}
        /\ imports'[m] = {}
    BY <2>1, <2>2, <2>3 DEF Resting, Key!Receive, Key!keyVars, KeyTypes
  <2>5. Getting(s, m, k, u)'
    BY <2>2, <2>4 DEF Getting, Resting, HasKey
  <2> QED
    BY <1>1, <1>2, <2>1, <2>4, <2>5, InStepReceiver DEF Key!Receive, Key!keyVars, KeyTypes
<1>5. ASSUME NEW t \in tasks[m], Key!Unwrap(m, t) PROVE InStep'
  <2>1. /\ wire[s][m] = <<>> /\ imports[m] = {} /\ roomKeys[m] = crypto[m] /\ HasKey(m, k)
        /\ \E stage \in {"decrypt", "import"} :
              tasks[m] = {[update |-> u, key |-> crypto[m], stage |-> stage]}
    BY <1>3, <1>5 DEF Getting, Resting
  <2>2. t = [update |-> u, key |-> crypto[m], stage |-> "decrypt"] /\ tasks[m] = {t}
    BY <1>5, <2>1 DEF Key!Unwrap
  <2>3. /\ crypto' = crypto /\ roomKeys' = roomKeys /\ wire' = wire /\ imports' = imports
        /\ unsent' = unsent
    BY <1>5 DEF Key!Unwrap, Key!keyVars
  <2>4. ASSUME t.key = t.update.old PROVE Getting(s, m, k, u)'
    <3>1. [t EXCEPT !.stage = "import"] = [update |-> u, key |-> crypto[m], stage |-> "import"]
      BY <2>2
    <3>2. tasks'[m] = (tasks[m] \ {t}) \cup {[t EXCEPT !.stage = "import"]}
      BY <1>5, <2>4 DEF Key!Unwrap, KeyTypes
    <3>3. tasks'[m] = {[update |-> u, key |-> crypto[m], stage |-> "import"]}
      BY <2>2, <3>1, <3>2
    <3>4. \E stage \in {"decrypt", "import"} :
             tasks'[m] = {[update |-> u, key |-> crypto'[m], stage |-> stage]}
      BY <2>3, <3>3
    <3>5. /\ wire'[s][m] = <<>> /\ imports'[m] = {} /\ roomKeys'[m] = crypto'[m]
          /\ unsent' \/ crypto'[m] = k
      BY <2>1, <2>3 DEF HasKey
    <3> QED BY <3>4, <3>5 DEF Getting, HasKey
  <2>5. ASSUME t.key # t.update.old PROVE Getting(s, m, k, u)'
    <3>1. tasks'[m] = {}
      BY <1>5, <2>2, <2>5 DEF Key!Unwrap, KeyTypes
    <3>2. unsent
      <4>1. unsent \/ u.old = k
        BY <1>1 DEF Sent
      <4>2. unsent \/ crypto[m] = k
        BY <2>1 DEF HasKey
      <4>3. crypto[m] # u.old
        BY <2>2, <2>5
      <4> QED BY <4>1, <4>2, <4>3
    <3>3. wire'[s][m] = <<>> /\ imports'[m] = {} /\ roomKeys'[m] = crypto'[m] /\ unsent'
      BY <2>1, <2>3, <3>2
    <3> QED BY <3>1, <3>3 DEF Getting, Resting, HasKey
  <2>6. Getting(s, m, k, u)'
    BY <2>4, <2>5
  <2> QED
    BY <1>1, <1>2, <1>5, <2>3, <2>6, InStepReceiver DEF Key!Unwrap, KeyTypes
<1>6. ASSUME NEW t \in tasks[m], Key!AdoptUpdate(m, t) PROVE InStep'
  <2>1. /\ wire[s][m] = <<>> /\ imports[m] = {}
        /\ \E stage \in {"decrypt", "import"} :
              tasks[m] = {[update |-> u, key |-> crypto[m], stage |-> stage]}
    BY <1>3, <1>6 DEF Getting, Resting
  <2>2. t.update.new = u.new /\ tasks[m] = {t}
    BY <2>1
  <2>4. /\ tasks'[m] = {} /\ imports'[m] = {u.new} /\ crypto'[m] = u.new /\ wire' = wire
        /\ unsent' = unsent
    BY <1>6, <2>1, <2>2 DEF Key!AdoptUpdate, Key!OnKeyRotated, KeyTypes
  <2>5. Getting(s, m, k, u)'
    BY <2>1, <2>4 DEF Getting
  <2> QED
    BY <1>1, <1>2, <1>6, <2>4, <2>5, InStepReceiver DEF Key!AdoptUpdate, Key!OnKeyRotated, KeyTypes
<1>7. ASSUME NEW j \in imports[m], Key!Imported(m, j) PROVE InStep'
  <2>1. /\ j = u.new /\ imports[m] = {u.new} /\ wire[s][m] = <<>> /\ tasks[m] = {}
        /\ crypto[m] = u.new
    BY <1>3, <1>7 DEF Getting, Resting
  <2>2. Getting(s, m, k, u)'
    BY <1>7, <2>1 DEF Getting, Resting, HasKey, Key!Imported, KeyTypes
  <2> QED
    BY <1>1, <1>2, <1>7, <2>2, InStepReceiver DEF Key!Imported, KeyTypes
<1> QED
  BY <1>4, <1>5, <1>6, <1>7

LEMMA KeyNext == KeyInv /\ [SyncNext]_syncVars => KeyInv'
<1> SUFFICES ASSUME KeyInv, Key!Next \/ UNCHANGED keyVars PROVE KeyInv'
  BY DEF SyncNext, syncVars
<1>1. CASE UNCHANGED keyVars
  <2> USE <1>1 DEF keyVars
  <2>1. KeyTypes'
    BY DEF KeyInv, KeyTypes
  <2>2. \A k \in Nat : AllAt(k) => AllAt(k)'
    BY DEF AllAt, Resting, HasKey, Silent
  <2>3. \A s \in Trio, k, n \in Nat : Begun(s, k, n) => Begun(s, k, n)'
    BY DEF Begun, Resting, HasKey, Silent
  <2>4. \A s \in Trio, k \in Nat, u \in Update : Sent(s, k, u) => Sent(s, k, u)'
    BY DEF Sent, Getting, Resting, HasKey
  <2>5. InStep => InStep'
    BY <2>2, <2>3, <2>4 DEF InStep
  <2> QED
    BY <2>1, <2>5 DEF KeyInv
<1>2. CASE Key!Next
  <2>1. KeyTypes' /\ roomKeyB64' = crypto'
    BY <1>2, KeyTypesNext, TextFollows DEF KeyInv
  <2>2. CASE overlapped
    <3>1. overlapped'
      BY <1>2, <2>2 DEF Key!Next, Key!StartRotate, Key!AbortRotate, Key!SendRotate,
                        Key!RefuseRotate, Key!Adopted, Key!Receive, Key!Unwrap,
                        Key!AdoptUpdate, Key!Imported
    <3> QED BY <2>1, <3>1 DEF KeyInv
  <2>3. CASE ~overlapped
    <3>1. KeyTypes /\ InStep
      BY <2>3 DEF KeyInv
    <3>2. (overlapped \/ InStep)'
      BY <1>2, <3>1, InStepStart, InStepAbort, InStepSend, InStepRefuse, InStepRest DEF Key!Next
    <3> QED BY <2>1, <3>2 DEF KeyInv
  <2> QED BY <2>2, <2>3
<1> QED
  BY <1>1, <1>2

LEMMA KeyAlways == SyncSpec => []KeyInv
  BY KeyInit, KeyNext, PTL DEF SyncSpec

(* Any number of members that rotate the key any number of times, one      *)
(* rotation after the other, end with one key, as long as no update is     *)
(* refused; some of them may be given up (App.svelte, rotateKeyViaE2EE;    *)
(* channel.svelte.ts, key_updated; transport.go, key_update).              *)
THEOREM RotationsKeepOneKey == SyncSpec => []OneRoomKey
<1>1. KeyInv => OneRoomKey
  BY SettledInStep DEF KeyInv, OneRoomKey, Key!OneRoomKey, AllAt, HasKey
<1> QED
  BY <1>1, KeyAlways, PTL

(* The App's text of the key is always the store's key, and its CryptoKey  *)
(* is so after rotations that do not overlap, refused or not (App.svelte,  *)
(* onKeyRotated).                                                          *)
THEOREM CopiesOfTheKeyAgree == SyncSpec => []KeyCopiesAgree
<1>1. KeyInv => KeyCopiesAgree
  BY SettledInStep DEF KeyInv, KeyCopiesAgree, Key!KeyCopiesAgree, AllAt, Resting
<1> QED
  BY <1>1, KeyAlways, PTL

-----------------------------------------------------------------------------
(* Nicks, when nobody leaves *)

Online == Cardinality(members)

Places(Clients) == 1..Cardinality(Clients)

NickTypes(Clients) ==
    /\ members \subseteq Clients
    /\ session \in [Clients -> Nat]
    /\ replies \subseteq members
    /\ tells \in Nat
    /\ counted \in [Places(Clients) -> Nat]
    /\ inbox \in [Clients -> [Places(Clients) -> Nat]]
    /\ outbox \in [Clients -> Nat]
    /\ lastOnline \in [Clients -> Nat]
    /\ peerNicks \in [Clients -> SUBSET (Clients \X Nat)]

LEMMA SameCount ==
    /\ \A S : Joins!Cardinality(S) = Cardinality(S) /\ Churn!Cardinality(S) = Cardinality(S)
    /\ Joins!Numbers = Places(Trio) /\ Churn!Numbers = Places(Pair)
<1>1. \A S : Joins!Cardinality(S) = Cardinality(S) /\ Churn!Cardinality(S) = Cardinality(S)
  BY DEF Joins!Cardinality, Churn!Cardinality, Cardinality
<1> QED
  BY <1>1 DEF Joins!Numbers, Churn!Numbers, Places

LEMMA ClientsFinite == IsFiniteSet(Pair) /\ IsFiniteSet(Trio) /\ Founder \in Pair /\ Founder \in Trio
<1>1. IsFiniteSet(Pair) /\ Pair # {}
  BY RoomAssumption
<1> QED
  BY <1>1, FS_AddElement DEF Trio, Founder

(* The online number counts clients. *)
LEMMA OnlineCounts ==
    ASSUME NEW Clients, IsFiniteSet(Clients), NEW M \in SUBSET Clients
    PROVE  /\ Cardinality(M) \in Nat
           /\ M # {} => Cardinality(M) \in Places(Clients)
           /\ \A c \in Clients \ M : Cardinality(M \cup {c}) = Cardinality(M) + 1
<1>1. IsFiniteSet(M) /\ Cardinality(M) <= Cardinality(Clients)
  BY FS_Subset
<1>2. Cardinality(M) \in Nat /\ Cardinality(Clients) \in Nat
  BY <1>1, FS_CardinalityType
<1>3. M # {} => Cardinality(M) # 0
  BY <1>1, FS_EmptySet
<1>4. \A c \in Clients \ M : Cardinality(M \cup {c}) = Cardinality(M) + 1
  BY <1>1, FS_AddElement
<1> QED
  BY <1>1, <1>2, <1>3, <1>4 DEF Places

(* No number exceeds the present one. *)
NumbersBelow ==
    /\ \A c \in Trio : lastOnline[c] <= Online
    /\ \A n \in Places(Trio) :
          counted[n] # 0 \/ (\E c \in Trio : inbox[c][n] # 0) => n <= Online

Known(d) == \A c \in members : c = d \/ Joins!Conn(d) \in peerNicks[c]

(* The present number is on its way to d, or will be. *)
NewsComing(d) == replies # {} \/ tells # 0 \/ counted[Online] # 0 \/ inbox[d][Online] # 0

(* Whoever is not known to all has an announcement under way, or was       *)
(* refused, or will see the number rise, whatever older numbers come first.*)
WillAnnounce ==
    \A d \in members :
        \/ Known(d) \/ outbox[d] # 0 \/ d \in refused
        \/ lastOnline[d] < Online /\ NewsComing(d)

JoinsInv == NickTypes(Trio) /\ NumbersBelow /\ WillAnnounce

LEMMA JoinsOnline ==
    ASSUME JoinsInv PROVE Online \in Nat /\ (members # {} => Online \in Places(Trio))
  BY ClientsFinite, OnlineCounts DEF JoinsInv, NickTypes, Online

LEMMA JoinsInit == Joins!Init => JoinsInv
<1> SUFFICES ASSUME Joins!Init PROVE JoinsInv
  OBVIOUS
<1> USE SameCount DEF Joins!Init
<1>1. members = {Founder} /\ Founder \in Trio /\ Online = 1 /\ Joins!Cardinality({Founder}) = 1
  BY ClientsFinite, FS_Singleton DEF Online
<1>2. NickTypes(Trio)
  <2>1. Founder \in Trio /\ session \in [Trio -> Nat] /\ lastOnline \in [Trio -> Nat]
    BY <1>1
  <2>2. peerNicks \in [Trio -> SUBSET (Trio \X Nat)]
    BY <2>1 DEF Joins!Conn
  <2>3. /\ counted \in [Places(Trio) -> Nat] /\ inbox \in [Trio -> [Places(Trio) -> Nat]]
    BY DEF Joins!None
  <2> QED BY <1>1, <2>1, <2>2, <2>3 DEF NickTypes
<1>3. NumbersBelow
  BY <1>1 DEF NumbersBelow, Joins!None
<1>4. WillAnnounce
  BY <1>1 DEF WillAnnounce, Known
<1> QED
  BY <1>2, <1>3, <1>4 DEF JoinsInv

LEMMA JoinsJoin == ASSUME JoinsInv, NEW c \in Trio, Joins!Join(c) PROVE JoinsInv'
<1> USE DEF JoinsInv
<1>1. /\ c \notin members /\ members' = members \cup {c} /\ replies' = replies \cup {c}
      /\ session' = [session EXCEPT ![c] = @ + 1]
      /\ UNCHANGED <<tells, counted, inbox, outbox, refused, lastOnline, peerNicks>>
  BY DEF Joins!Join
<1>2. Online \in Nat /\ Online' = Online + 1
  BY <1>1, ClientsFinite, OnlineCounts DEF NickTypes, Online
<1>3. NickTypes(Trio)'
  BY <1>1 DEF NickTypes
<1>4. NumbersBelow'
  <2>1. \A n \in Places(Trio) : n \in Int
    BY DEF Places
  <2> QED
    BY <1>1, <1>2, <2>1 DEF NumbersBelow, NickTypes
<1>5. WillAnnounce'
  <2>1. \A d \in Trio : lastOnline'[d] < Online'
    BY <1>1, <1>2 DEF NickTypes, NumbersBelow
  <2> QED
    BY <1>1, <2>1 DEF WillAnnounce, NewsComing, NickTypes
<1> QED
  BY <1>3, <1>4, <1>5

(* Steps that change no nick, no number seen and no announcement: the      *)
(* present number is still to come.                                        *)
LEMMA JoinsNews ==
    ASSUME JoinsInv, Online' = Online, \A d \in members : NewsComing(d) => NewsComing(d)',
           UNCHANGED <<members, session, outbox, refused, lastOnline, peerNicks>>
    PROVE  WillAnnounce'
  BY DEF JoinsInv, WillAnnounce, Known, Joins!Conn

LEMMA JoinsReply == ASSUME JoinsInv, NEW c \in Trio, Joins!Reply(c) PROVE JoinsInv'
<1> USE DEF JoinsInv
<1>1. /\ c \in replies /\ replies' = replies \ {c} /\ tells' = tells + 1
      /\ inbox' = [inbox EXCEPT ![c][Online] = @ + 1]
      /\ UNCHANGED <<members, session, counted, outbox, refused, lastOnline, peerNicks>>
  BY SameCount DEF Joins!Reply, Joins!clientVars, Online
<1>2. Online' = Online /\ Online \in Places(Trio) /\ Online \in Nat
  BY <1>1, JoinsOnline DEF NickTypes, Online
<1>3. \A d \in Trio, n \in Places(Trio) :
         inbox'[d][n] = IF d = c /\ n = Online THEN inbox[d][n] + 1 ELSE inbox[d][n]
  BY <1>1, <1>2 DEF NickTypes
<1>4. NickTypes(Trio)'
  BY <1>1, <1>2 DEF NickTypes
<1>5. NumbersBelow'
  BY <1>1, <1>2, <1>3 DEF NumbersBelow
<1>6. tells' # 0
  BY <1>1 DEF NickTypes
<1>7. WillAnnounce'
  BY <1>1, <1>2, <1>6, JoinsNews DEF NewsComing
<1> QED
  BY <1>4, <1>5, <1>7

LEMMA JoinsCount == ASSUME JoinsInv, Joins!Count PROVE JoinsInv'
<1> USE DEF JoinsInv
<1>1. /\ tells > 0 /\ tells' = tells - 1
      /\ counted' = IF members = {} THEN counted ELSE [counted EXCEPT ![Online] = @ + 1]
      /\ UNCHANGED <<members, session, replies, inbox, outbox, refused, lastOnline, peerNicks>>
  BY SameCount DEF Joins!Count, Joins!clientVars, Online
<1>2. Online' = Online /\ Online \in Nat /\ (members # {} => Online \in Places(Trio))
  BY <1>1, JoinsOnline DEF Online
<1>3. \A n \in Places(Trio) : counted'[n] = IF members # {} /\ n = Online THEN counted[n] + 1
                                                                         ELSE counted[n]
  BY <1>1, <1>2 DEF NickTypes
<1>4. NickTypes(Trio)'
  BY <1>1, <1>2 DEF NickTypes
<1>5. NumbersBelow'
  BY <1>1, <1>2, <1>3 DEF NumbersBelow
<1>6. members # {} => counted'[Online] # 0
  BY <1>2, <1>3 DEF NickTypes
<1>7. WillAnnounce'
  BY <1>1, <1>2, <1>6, JoinsNews DEF NewsComing
<1> QED
  BY <1>4, <1>5, <1>7

LEMMA JoinsTell == ASSUME JoinsInv, NEW n \in Places(Trio), Joins!Tell(n) PROVE JoinsInv'
<1> USE DEF JoinsInv
<1>1. /\ counted[n] > 0 /\ counted' = [counted EXCEPT ![n] = @ - 1]
      /\ inbox' = [c \in Trio |-> IF c \in members THEN [inbox[c] EXCEPT ![n] = @ + 1] ELSE inbox[c]]
      /\ UNCHANGED <<members, session, replies, tells, outbox, refused, lastOnline, peerNicks>>
  BY DEF Joins!Tell, Joins!clientVars
<1>2. Online' = Online /\ Online \in Nat /\ (members # {} => Online \in Places(Trio))
  BY <1>1, JoinsOnline DEF Online
<1>3. /\ \A d \in Trio, i \in Places(Trio) :
            inbox'[d][i] = IF d \in members /\ i = n THEN inbox[d][i] + 1 ELSE inbox[d][i]
      /\ \A i \in Places(Trio) : counted'[i] = IF i = n THEN counted[i] - 1 ELSE counted[i]
  BY <1>1 DEF NickTypes
<1>4. NickTypes(Trio)'
  <2>1. counted' \in [Places(Trio) -> Nat]
    BY <1>1 DEF NickTypes
  <2>2. inbox' \in [Trio -> [Places(Trio) -> Nat]]
    BY <1>1 DEF NickTypes
  <2> QED BY <1>1, <2>1, <2>2 DEF NickTypes
<1>5. NumbersBelow'
  <2>1. n <= Online
    BY <1>1 DEF NumbersBelow, NickTypes
  <2> SUFFICES ASSUME NEW i \in Places(Trio), counted'[i] # 0 \/ \E c \in Trio : inbox'[c][i] # 0
               PROVE  i <= Online
    BY <1>1, <1>2 DEF NumbersBelow
  <2>2. CASE i = n
    BY <2>1, <2>2
  <2>3. CASE i # n
    BY <1>3, <2>3 DEF NumbersBelow
  <2> QED BY <2>2, <2>3
<1>6. ASSUME NEW d \in members, NewsComing(d) PROVE NewsComing(d)'
  <2>1. d \in Trio /\ Online \in Places(Trio) /\ inbox[d][Online] \in Nat
    BY <1>2 DEF NickTypes
  <2>2. CASE n = Online
    <3>1. inbox'[d][Online] # 0
      BY <1>3, <2>1, <2>2
    <3> QED BY <1>2, <3>1 DEF NewsComing
  <2>3. CASE n # Online
    <3>1. inbox'[d][Online] = inbox[d][Online] /\ counted'[Online] = counted[Online]
      BY <1>3, <2>1, <2>3
    <3> QED BY <1>1, <1>2, <1>6, <3>1 DEF NewsComing
  <2> QED BY <2>2, <2>3
<1>7. WillAnnounce'
  BY <1>1, <1>2, <1>6, JoinsNews
<1> QED
  BY <1>4, <1>5, <1>7

LEMMA JoinsRelay == ASSUME JoinsInv, NEW c \in Trio, Joins!Relay(c) PROVE JoinsInv'
<1> USE DEF JoinsInv
<1>1. /\ outbox[c] > 0 /\ outbox' = [outbox EXCEPT ![c] = @ - 1] /\ refused' = refused \ {c}
      /\ peerNicks' = [d \in Trio |-> IF d \in members THEN peerNicks[d] \cup {Joins!Conn(c)}
                                                        ELSE peerNicks[d]]
      /\ UNCHANGED <<members, session, replies, tells, counted, inbox, lastOnline>>
  BY DEF Joins!Relay, Joins!serverVars
<1>2. Online' = Online
  BY <1>1 DEF Online
<1>3. Joins!Conn(c) \in Trio \X Nat
  BY DEF Joins!Conn, NickTypes
<1>4. NickTypes(Trio)'
  <2>1. outbox' \in [Trio -> Nat]
    BY <1>1 DEF NickTypes
  <2>2. peerNicks' \in [Trio -> SUBSET (Trio \X Nat)]
    BY <1>1, <1>3 DEF NickTypes
  <2> QED BY <1>1, <2>1, <2>2 DEF NickTypes
<1>5. NumbersBelow'
  BY <1>1, <1>2 DEF NumbersBelow
<1>6. \A d \in members : peerNicks'[d] = peerNicks[d] \cup {Joins!Conn(c)}
  BY <1>1 DEF NickTypes
<1>7. ASSUME NEW d \in members
      PROVE  \/ Known(d)' \/ outbox'[d] # 0 \/ d \in refused'
             \/ lastOnline'[d] < Online' /\ NewsComing(d)'
  <2>1. Joins!Conn(d)' = Joins!Conn(d)
    BY <1>1 DEF Joins!Conn
  <2>2. CASE d = c
    <3>1. Known(d)'
      BY <1>1, <1>6, <2>1, <2>2 DEF Known
    <3> QED BY <3>1
  <2>3. CASE d # c
    <3>1. outbox'[d] = outbox[d] /\ (d \in refused <=> d \in refused')
      BY <1>1, <2>3 DEF NickTypes
    <3>2. Known(d) => Known(d)'
      BY <1>1, <1>6, <2>1 DEF Known
    <3>3. NewsComing(d) <=> NewsComing(d)'
      BY <1>1, <1>2 DEF NewsComing
    <3> QED BY <1>1, <1>2, <3>1, <3>2, <3>3 DEF WillAnnounce
  <2> QED BY <2>2, <2>3
<1>8. WillAnnounce'
  BY <1>1, <1>7 DEF WillAnnounce
<1> QED
  BY <1>4, <1>5, <1>8

LEMMA JoinsRefuse == ASSUME JoinsInv, NEW c \in Trio, Joins!Refuse(c) PROVE JoinsInv'
<1> USE DEF JoinsInv
<1>1. /\ outbox[c] > 0 /\ outbox' = [outbox EXCEPT ![c] = @ - 1] /\ refused' = refused \cup {c}
      /\ UNCHANGED <<members, session, replies, tells, counted, inbox, lastOnline, peerNicks>>
  BY DEF Joins!Refuse, Joins!serverVars, Joins!clientVars
<1>2. Online' = Online
  BY <1>1 DEF Online
<1>3. NickTypes(Trio)'
  <2>1. outbox' \in [Trio -> Nat]
    BY <1>1 DEF NickTypes
  <2> QED BY <1>1, <2>1 DEF NickTypes
<1>4. NumbersBelow'
  BY <1>1, <1>2 DEF NumbersBelow
<1>5. WillAnnounce'
  <2>1. \A d \in Trio : d # c => outbox'[d] = outbox[d]
    BY <1>1 DEF NickTypes
  <2>2. \A d \in members : (Known(d) <=> Known(d)') /\ (NewsComing(d) <=> NewsComing(d)')
    BY <1>1, <1>2 DEF Known, NewsComing, Joins!Conn
  <2> QED BY <1>1, <1>2, <2>1, <2>2 DEF WillAnnounce, NickTypes
<1> QED
  BY <1>3, <1>4, <1>5

(* What the client does with a number, whatever else is on its way *)
LEMMA JoinsReceive ==
    ASSUME JoinsInv, NEW c \in Trio, NEW n \in Places(Trio), Joins!ReceiveCount(c, n) PROVE JoinsInv'
<1> USE DEF JoinsInv
<1>1. /\ inbox[c][n] > 0 /\ inbox' = [inbox EXCEPT ![c][n] = @ - 1]
      /\ lastOnline' = [lastOnline EXCEPT ![c] = n]
      /\ outbox' = [outbox EXCEPT ![c] = IF n > lastOnline[c] THEN @ + 1 ELSE @]
      /\ UNCHANGED <<members, session, replies, tells, counted, refused, peerNicks>>
  BY DEF Joins!ReceiveCount, Joins!Announces, Joins!serverVars
<1>2. Online' = Online /\ Online \in Nat /\ (members # {} => Online \in Places(Trio)) /\ n \in Nat
  BY <1>1, JoinsOnline DEF Online, Places
<1>3. /\ \A d \in Trio, i \in Places(Trio) :
            inbox'[d][i] = IF d = c /\ i = n THEN inbox[d][i] - 1 ELSE inbox[d][i]
      /\ \A d \in Trio : /\ lastOnline'[d] = IF d = c THEN n ELSE lastOnline[d]
                         /\ outbox'[d] = IF d = c /\ n > lastOnline[c] THEN outbox[d] + 1
                                                                      ELSE outbox[d]
  BY <1>1 DEF NickTypes
<1>4. NickTypes(Trio)'
  <2>1. inbox' \in [Trio -> [Places(Trio) -> Nat]]
    BY <1>1 DEF NickTypes
  <2>2. lastOnline' \in [Trio -> Nat] /\ outbox' \in [Trio -> Nat]
    BY <1>1, <1>2 DEF NickTypes
  <2> QED BY <1>1, <2>1, <2>2 DEF NickTypes
<1>5. n <= Online
  BY <1>1 DEF NumbersBelow, NickTypes
<1>6. NumbersBelow'
  <2>1. \A d \in Trio : lastOnline'[d] <= Online
    BY <1>3, <1>5 DEF NumbersBelow
  <2>2. ASSUME NEW i \in Places(Trio), counted[i] # 0 \/ \E d \in Trio : inbox'[d][i] # 0
        PROVE  i <= Online
    <3>1. CASE i = n
      BY <1>5, <3>1
    <3>2. CASE i # n
      BY <1>3, <2>2, <3>2 DEF NumbersBelow
    <3> QED BY <3>1, <3>2
  <2> QED BY <1>1, <1>2, <2>1, <2>2 DEF NumbersBelow
<1>7. ASSUME NEW d \in members
      PROVE  \/ Known(d)' \/ outbox'[d] # 0 \/ d \in refused'
             \/ lastOnline'[d] < Online' /\ NewsComing(d)'
  <2>1. /\ d \in Trio /\ Online \in Places(Trio) /\ outbox[d] \in Nat /\ lastOnline[d] \in Nat
        /\ lastOnline[c] \in Nat
    BY <1>2 DEF NickTypes
  <2>2. Known(d) => Known(d)'
    BY <1>1 DEF Known, Joins!Conn
  <2>3. outbox[d] # 0 => outbox'[d] # 0
    BY <1>3, <2>1
  <2>4. ASSUME lastOnline[d] < Online, NewsComing(d)
        PROVE  outbox'[d] # 0 \/ (lastOnline'[d] < Online /\ NewsComing(d)')
    <3>1. CASE d = c /\ n > lastOnline[c]
      BY <1>3, <2>1, <3>1
    <3>2. CASE ~(d = c /\ n > lastOnline[c])
      <4>1. lastOnline'[d] < Online
        BY <1>2, <1>3, <2>1, <2>4, <3>2
      <4>2. inbox'[d][Online] = inbox[d][Online]
        BY <1>2, <1>3, <2>1, <2>4, <3>2
      <4> QED BY <1>1, <1>2, <2>4, <4>1, <4>2 DEF NewsComing
    <3> QED BY <3>1, <3>2
  <2> QED BY <1>1, <1>2, <2>2, <2>3, <2>4 DEF WillAnnounce
<1>8. WillAnnounce'
  BY <1>1, <1>7 DEF WillAnnounce
<1> QED
  BY <1>4, <1>6, <1>8

LEMMA JoinsNext == JoinsInv /\ Joins!Next => JoinsInv'
<1> SUFFICES ASSUME JoinsInv, Joins!Next PROVE JoinsInv'
  OBVIOUS
<1>1. ASSUME NEW c \in Trio, Joins!Drop(c) \/ Joins!Leave(c) PROVE FALSE
  BY <1>1 DEF Joins!Drop, Joins!Leave
<1> QED
  BY <1>1, SameCount, JoinsJoin, JoinsReply, JoinsCount, JoinsTell, JoinsRelay, JoinsRefuse,
     JoinsReceive DEF Joins!Next

LEMMA JoinsShow == JoinsInv => Joins!EveryNickKnown
<1> SUFFICES ASSUME JoinsInv, Joins!AtRest, NEW c \in members, NEW d \in members \ refused
             PROVE  c = d \/ Joins!Conn(d) \in peerNicks[c]
  BY DEF Joins!EveryNickKnown
<1>1. d \in Trio /\ Online \in Places(Trio)
  BY JoinsOnline DEF JoinsInv, NickTypes
<1>2. outbox[d] = 0 /\ inbox[d][Online] = 0 /\ counted[Online] = 0 /\ tells = 0 /\ replies = {}
  BY <1>1, SameCount DEF Joins!AtRest, Joins!None
<1>3. Known(d)
  BY <1>2 DEF JoinsInv, WillAnnounce, NewsComing
<1> QED
  BY <1>3 DEF Known

-----------------------------------------------------------------------------
(* Nicks, when clients also leave, come back and lose connections *)

(* A number is on its way to c; it counts c at least. *)
NumberComing(c) == \E n \in Places(Pair) : inbox[c][n] # 0

(* Who is not in the room and does not reconnect has forgotten the number. *)
OutsideNothing ==
    \A c \in Pair \ members : ~NumberComing(c) /\ (c \in returning \/ lastOnline[c] = 0)

OwedByMembers == \A c \in Pair : owed[c] \subseteq members

(* A newcomer that somebody has to learn has an announcement under way, or *)
(* was refused, or knows of no number yet and will get one.                *)
Introduces(c) ==
    \/ outbox[c] # 0 \/ c \in refused
    \/ lastOnline[c] = 0 /\ (NumberComing(c) \/ c \in replies)

WillIntroduce ==
    \A c \in members : \A d \in owed[c] : Churn!Conn(c) \in peerNicks[d] \/ Introduces(c)

ChurnInv ==
    /\ NickTypes(Pair) /\ owed \in [Pair -> SUBSET Pair]
    /\ OutsideNothing /\ OwedByMembers /\ WillIntroduce

LEMMA ChurnInit == Churn!Init => ChurnInv
<1> SUFFICES ASSUME Churn!Init PROVE ChurnInv
  OBVIOUS
<1> USE SameCount DEF Churn!Init
<1>1. members = {Founder} /\ Founder \in Pair /\ Churn!Cardinality({Founder}) = 1
  BY ClientsFinite, FS_Singleton
<1>2. NickTypes(Pair)
  <2>1. session \in [Pair -> Nat] /\ lastOnline \in [Pair -> Nat]
    BY <1>1
  <2>2. peerNicks \in [Pair -> SUBSET (Pair \X Nat)]
    BY <1>1, <2>1 DEF Churn!Conn
  <2>3. /\ counted \in [Places(Pair) -> Nat] /\ inbox \in [Pair -> [Places(Pair) -> Nat]]
    BY DEF Churn!None
  <2> QED BY <1>1, <2>1, <2>2, <2>3 DEF NickTypes
<1>3. OutsideNothing
  BY <1>1 DEF OutsideNothing, NumberComing, Churn!None
<1> QED
  BY <1>1, <1>2, <1>3 DEF ChurnInv, OwedByMembers, WillIntroduce

LEMMA ChurnJoin == ASSUME ChurnInv, NEW c \in Pair, Churn!Join(c) PROVE ChurnInv'
<1> USE DEF ChurnInv
<1>1. /\ c \notin members /\ members' = members \cup {c} /\ replies' = replies \cup {c}
      /\ session' = [session EXCEPT ![c] = @ + 1]
      /\ owed' = [owed EXCEPT ![c] = IF c \in returning THEN {} ELSE members]
      /\ returning' = returning \ {c}
      /\ UNCHANGED <<tells, counted, inbox, outbox, refused, lastOnline, peerNicks>>
  BY DEF Churn!Join
<1>2. NickTypes(Pair)' /\ owed' \in [Pair -> SUBSET Pair]
  BY <1>1 DEF NickTypes
<1>3. OutsideNothing' /\ OwedByMembers'
  BY <1>1 DEF OutsideNothing, OwedByMembers, NumberComing
<1>4. WillIntroduce'
  <2> SUFFICES ASSUME NEW e \in members', NEW d \in owed'[e]
               PROVE  (Churn!Conn(e) \in peerNicks[d] \/ Introduces(e))'
    BY DEF WillIntroduce
  <2>1. CASE e = c
    <3>1. c \notin returning
      BY <1>1, <2>1
    <3>2. lastOnline[c] = 0
      BY <1>1, <3>1 DEF OutsideNothing
    <3> QED BY <1>1, <2>1, <3>2 DEF Introduces
  <2>2. CASE e # c
    <3>1. e \in members /\ d \in owed[e] /\ Churn!Conn(e)' = Churn!Conn(e)
      BY <1>1, <2>2 DEF NickTypes, Churn!Conn
    <3>2. Introduces(e) => Introduces(e)'
      BY <1>1 DEF Introduces, NumberComing
    <3> QED BY <1>1, <3>1, <3>2 DEF WillIntroduce
  <2> QED BY <2>1, <2>2
<1> QED
  BY <1>2, <1>3, <1>4

(* Steps that change no member, no nick and no connection *)
LEMMA ChurnIntroduces ==
    ASSUME ChurnInv, \A c \in members : Introduces(c) => Introduces(c)',
           UNCHANGED <<members, session, peerNicks, owed>>
    PROVE  WillIntroduce'
  BY DEF ChurnInv, WillIntroduce, Churn!Conn

LEMMA ChurnReply == ASSUME ChurnInv, NEW c \in Pair, Churn!Reply(c) PROVE ChurnInv'
<1> USE DEF ChurnInv
<1>1. /\ c \in replies /\ tells' = tells + 1 /\ replies' = replies \ {c}
      /\ inbox' = [inbox EXCEPT ![c][Online] = @ + 1]
      /\ UNCHANGED <<members, session, counted, outbox, refused, lastOnline, peerNicks, returning, owed>>
  BY SameCount DEF Churn!Reply, Churn!clientVars, Online
<1>2. c \in members /\ Online \in Places(Pair)
  BY <1>1, ClientsFinite, OnlineCounts DEF NickTypes, Online
<1>3. \A e \in Pair, n \in Places(Pair) :
         inbox'[e][n] = IF e = c /\ n = Online THEN inbox[e][n] + 1 ELSE inbox[e][n]
  BY <1>1, <1>2 DEF NickTypes
<1>4. NickTypes(Pair)'
  BY <1>1, <1>2 DEF NickTypes
<1>5. OutsideNothing' /\ OwedByMembers'
  BY <1>1, <1>2, <1>3 DEF OutsideNothing, OwedByMembers, NumberComing
<1>6. inbox'[c][Online] # 0
  BY <1>2, <1>3 DEF NickTypes
<1>7. ASSUME NEW e \in members, NumberComing(e) PROVE NumberComing(e)'
  <2>1. PICK n \in Places(Pair) : inbox[e][n] # 0
    BY <1>7 DEF NumberComing
  <2>2. e \in Pair /\ inbox[e][n] \in Nat
    BY DEF NickTypes
  <2>3. inbox'[e][n] # 0
    BY <1>3, <2>1, <2>2
  <2> QED BY <2>3 DEF NumberComing
<1>8. WillIntroduce'
  BY <1>1, <1>2, <1>6, <1>7, ChurnIntroduces DEF Introduces, NumberComing
<1> QED
  BY <1>1, <1>4, <1>5, <1>8

LEMMA ChurnCount == ASSUME ChurnInv, Churn!Count PROVE ChurnInv'
<1> USE DEF ChurnInv
<1>1. /\ tells > 0 /\ tells' = tells - 1
      /\ counted' = IF members = {} THEN counted ELSE [counted EXCEPT ![Online] = @ + 1]
      /\ UNCHANGED <<members, session, replies, inbox, outbox, refused, lastOnline, peerNicks, returning,
                     owed>>
  BY SameCount DEF Churn!Count, Churn!clientVars, Online
<1>2. members # {} => Online \in Places(Pair)
  BY ClientsFinite, OnlineCounts DEF NickTypes, Online
<1>3. NickTypes(Pair)'
  BY <1>1, <1>2 DEF NickTypes
<1>4. OutsideNothing' /\ OwedByMembers'
  BY <1>1 DEF OutsideNothing, OwedByMembers, NumberComing
<1>5. WillIntroduce'
  BY <1>1, ChurnIntroduces DEF Introduces, NumberComing
<1> QED
  BY <1>1, <1>3, <1>4, <1>5

LEMMA ChurnTell == ASSUME ChurnInv, NEW n \in Places(Pair), Churn!Tell(n) PROVE ChurnInv'
<1> USE DEF ChurnInv
<1>1. /\ counted[n] > 0 /\ counted' = [counted EXCEPT ![n] = @ - 1]
      /\ inbox' = [c \in Pair |-> IF c \in members THEN [inbox[c] EXCEPT ![n] = @ + 1] ELSE inbox[c]]
      /\ UNCHANGED <<members, session, replies, tells, outbox, refused, lastOnline, peerNicks, returning,
                     owed>>
  BY DEF Churn!Tell, Churn!clientVars
<1>2. \A e \in Pair, i \in Places(Pair) :
         inbox'[e][i] = IF e \in members /\ i = n THEN inbox[e][i] + 1 ELSE inbox[e][i]
  BY <1>1 DEF NickTypes
<1>3. NickTypes(Pair)'
  <2>1. counted' \in [Places(Pair) -> Nat]
    BY <1>1 DEF NickTypes
  <2>2. inbox' \in [Pair -> [Places(Pair) -> Nat]]
    BY <1>1 DEF NickTypes
  <2> QED BY <1>1, <2>1, <2>2 DEF NickTypes
<1>4. OutsideNothing' /\ OwedByMembers'
  BY <1>1, <1>2 DEF OutsideNothing, OwedByMembers, NumberComing
<1>5. \A e \in members : NumberComing(e) => NumberComing(e)'
  BY <1>2 DEF NumberComing, NickTypes
<1>6. WillIntroduce'
  BY <1>1, <1>5, ChurnIntroduces DEF Introduces
<1> QED
  BY <1>1, <1>3, <1>4, <1>6

LEMMA ChurnRelay == ASSUME ChurnInv, NEW c \in Pair, Churn!Relay(c) PROVE ChurnInv'
<1> USE DEF ChurnInv
<1>1. /\ outbox[c] > 0 /\ outbox' = [outbox EXCEPT ![c] = @ - 1] /\ refused' = refused \ {c}
      /\ peerNicks' = [d \in Pair |-> IF d \in members THEN peerNicks[d] \cup {Churn!Conn(c)}
                                                        ELSE peerNicks[d]]
      /\ UNCHANGED <<members, session, replies, tells, counted, inbox, lastOnline, returning, owed>>
  BY DEF Churn!Relay, Churn!serverVars
<1>2. Churn!Conn(c) \in Pair \X Nat
  BY DEF Churn!Conn, NickTypes
<1>3. NickTypes(Pair)'
  <2>1. outbox' \in [Pair -> Nat]
    BY <1>1 DEF NickTypes
  <2>2. peerNicks' \in [Pair -> SUBSET (Pair \X Nat)]
    BY <1>1, <1>2 DEF NickTypes
  <2> QED BY <1>1, <2>1, <2>2 DEF NickTypes
<1>4. OutsideNothing' /\ OwedByMembers'
  BY <1>1 DEF OutsideNothing, OwedByMembers, NumberComing
<1>5. WillIntroduce'
  <2> SUFFICES ASSUME NEW e \in members, NEW d \in owed[e]
               PROVE  Churn!Conn(e) \in peerNicks'[d] \/ Introduces(e)'
    BY <1>1 DEF WillIntroduce, Churn!Conn
  <2>1. e \in Pair /\ d \in members /\ d \in Pair
    BY DEF NickTypes, OwedByMembers
  <2>2. peerNicks'[d] = peerNicks[d] \cup {Churn!Conn(c)}
    BY <1>1, <2>1
  <2>3. CASE e = c
    BY <2>2, <2>3
  <2>4. CASE e # c
    <3>1. outbox'[e] = outbox[e]
      BY <1>1, <2>1, <2>4 DEF NickTypes
    <3>2. Introduces(e) => Introduces(e)'
      BY <1>1, <2>4, <3>1 DEF Introduces, NumberComing
    <3> QED BY <2>2, <3>2 DEF WillIntroduce
  <2> QED BY <2>3, <2>4
<1> QED
  BY <1>1, <1>3, <1>4, <1>5

LEMMA ChurnRefuse == ASSUME ChurnInv, NEW c \in Pair, Churn!Refuse(c) PROVE ChurnInv'
<1> USE DEF ChurnInv
<1>1. /\ outbox[c] > 0 /\ outbox' = [outbox EXCEPT ![c] = @ - 1] /\ refused' = refused \cup {c}
      /\ UNCHANGED <<members, session, replies, tells, counted, inbox, lastOnline, peerNicks, returning,
                     owed>>
  BY DEF Churn!Refuse, Churn!serverVars, Churn!clientVars
<1>2. NickTypes(Pair)'
  <2>1. outbox' \in [Pair -> Nat]
    BY <1>1 DEF NickTypes
  <2> QED BY <1>1, <2>1 DEF NickTypes
<1>3. OutsideNothing' /\ OwedByMembers'
  BY <1>1 DEF OutsideNothing, OwedByMembers, NumberComing
<1>4. \A e \in members : Introduces(e) => Introduces(e)'
  BY <1>1 DEF Introduces, NumberComing, NickTypes
<1>5. WillIntroduce'
  BY <1>1, <1>4, ChurnIntroduces
<1> QED
  BY <1>1, <1>2, <1>3, <1>5

LEMMA ChurnRemoved ==
    ASSUME ChurnInv, NEW c \in Pair, Churn!Drop(c) \/ Churn!Leave(c) PROVE ChurnInv'
<1> USE DEF ChurnInv
<1>1. /\ c \in members \ replies /\ members' = members \ {c} /\ tells' = tells + 1
      /\ inbox' = [inbox EXCEPT ![c] = Churn!None] /\ outbox' = [outbox EXCEPT ![c] = 0]
      /\ refused' = refused \ {c}
      /\ owed' = [d \in Pair |-> IF d = c THEN {} ELSE owed[d] \ {c}]
      /\ UNCHANGED <<session, replies, counted>>
  BY DEF Churn!Drop, Churn!Leave, Churn!Removed
<1>2. /\ lastOnline' \in [Pair -> Nat] /\ peerNicks' \in [Pair -> SUBSET (Pair \X Nat)]
      /\ \A e \in Pair : e # c => lastOnline'[e] = lastOnline[e] /\ peerNicks'[e] = peerNicks[e]
      /\ returning \subseteq returning' /\ (c \in returning' \/ lastOnline'[c] = 0)
  <2>1. CASE Churn!Drop(c)
    BY <2>1 DEF Churn!Drop, NickTypes
  <2>2. CASE Churn!Leave(c)
    BY <2>2 DEF Churn!Leave, Churn!OnlineForgotten, NickTypes
  <2> QED BY <2>1, <2>2
<1>3. /\ Churn!None \in [Places(Pair) -> Nat] /\ \A n \in Places(Pair) : Churn!None[n] = 0
  BY SameCount DEF Churn!None
<1>4. NickTypes(Pair)' /\ owed' \in [Pair -> SUBSET Pair]
  <2>1. inbox' \in [Pair -> [Places(Pair) -> Nat]]
    BY <1>1, <1>3 DEF NickTypes
  <2>2. owed' \in [Pair -> SUBSET Pair] /\ outbox' \in [Pair -> Nat]
    BY <1>1 DEF NickTypes
  <2>3. members' \subseteq Pair /\ replies' \subseteq members'
    BY <1>1 DEF NickTypes
  <2> QED BY <1>1, <1>2, <2>1, <2>2, <2>3 DEF NickTypes
<1>5. \A e \in Pair : inbox'[e] = IF e = c THEN Churn!None ELSE inbox[e]
  BY <1>1 DEF NickTypes
<1>6. OutsideNothing'
  BY <1>1, <1>2, <1>3, <1>5 DEF OutsideNothing, NumberComing
<1>7. OwedByMembers'
  BY <1>1 DEF OwedByMembers
<1>8. WillIntroduce'
  <2> SUFFICES ASSUME NEW e \in members', NEW d \in owed'[e]
               PROVE  Churn!Conn(e) \in peerNicks'[d] \/ Introduces(e)'
    BY <1>1 DEF WillIntroduce, Churn!Conn
  <2>1. e \in members /\ e \in Pair /\ e # c
    BY <1>1 DEF NickTypes
  <2>2. d \in owed[e] /\ d \in Pair /\ d # c
    BY <1>1, <2>1
  <2>3. /\ outbox'[e] = outbox[e] /\ inbox'[e] = inbox[e] /\ lastOnline'[e] = lastOnline[e]
        /\ peerNicks'[d] = peerNicks[d]
    BY <1>1, <1>2, <2>1, <2>2 DEF NickTypes
  <2>4. Introduces(e) => Introduces(e)'
    BY <1>1, <2>1, <2>3 DEF Introduces, NumberComing
  <2> QED
    BY <2>1, <2>2, <2>3, <2>4 DEF WillIntroduce
<1> QED
  BY <1>4, <1>6, <1>7, <1>8

LEMMA ChurnReceive ==
    ASSUME ChurnInv, NEW c \in Pair, NEW n \in Places(Pair), Churn!ReceiveCount(c, n) PROVE ChurnInv'
<1> USE DEF ChurnInv
<1>1. /\ inbox[c][n] > 0 /\ inbox' = [inbox EXCEPT ![c][n] = @ - 1]
      /\ lastOnline' = [lastOnline EXCEPT ![c] = n]
      /\ outbox' = [outbox EXCEPT ![c] = IF n > lastOnline[c] THEN @ + 1 ELSE @]
      /\ UNCHANGED <<members, session, replies, tells, counted, refused, peerNicks, returning, owed>>
  BY DEF Churn!ReceiveCount, Churn!Announces, Churn!serverVars
<1>2. n \in Nat /\ n # 0 /\ c \in members
  BY <1>1 DEF Places, OutsideNothing, NumberComing, NickTypes
<1>3. /\ \A d \in Pair, i \in Places(Pair) :
            inbox'[d][i] = IF d = c /\ i = n THEN inbox[d][i] - 1 ELSE inbox[d][i]
      /\ \A d \in Pair : /\ lastOnline'[d] = IF d = c THEN n ELSE lastOnline[d]
                         /\ outbox'[d] = IF d = c /\ n > lastOnline[c] THEN outbox[d] + 1
                                                                      ELSE outbox[d]
  BY <1>1 DEF NickTypes
<1>4. NickTypes(Pair)'
  <2>1. inbox' \in [Pair -> [Places(Pair) -> Nat]]
    BY <1>1 DEF NickTypes
  <2>2. lastOnline' \in [Pair -> Nat] /\ outbox' \in [Pair -> Nat]
    BY <1>1, <1>2 DEF NickTypes
  <2> QED BY <1>1, <2>1, <2>2 DEF NickTypes
<1>5. OutsideNothing' /\ OwedByMembers'
  BY <1>1, <1>2, <1>3 DEF OutsideNothing, OwedByMembers, NumberComing
<1>6. ASSUME NEW e \in members, Introduces(e) PROVE Introduces(e)'
  <2>1. e \in Pair /\ outbox[e] \in Nat /\ lastOnline[e] \in Nat
    BY DEF NickTypes
  <2>2. CASE e = c /\ lastOnline[e] = 0
    <3>1. outbox'[e] # 0
      BY <1>2, <1>3, <2>1, <2>2
    <3> QED BY <3>1 DEF Introduces
  <2>3. CASE e = c /\ lastOnline[e] # 0
    <3>1. outbox[e] # 0 \/ e \in refused
      BY <1>6, <2>3 DEF Introduces
    <3>2. outbox[e] # 0 => outbox'[e] # 0
      BY <1>3, <2>1
    <3> QED BY <1>1, <3>1, <3>2 DEF Introduces
  <2>4. CASE e # c
    BY <1>1, <1>3, <1>6, <2>1, <2>4 DEF Introduces, NumberComing
  <2> QED BY <2>2, <2>3, <2>4
<1>7. WillIntroduce'
  BY <1>1, <1>6, ChurnIntroduces
<1> QED
  BY <1>1, <1>4, <1>5, <1>7

LEMMA ChurnNext == ChurnInv /\ Churn!Next => ChurnInv'
  BY SameCount, ChurnJoin, ChurnReply, ChurnCount, ChurnTell, ChurnRelay, ChurnRefuse, ChurnRemoved,
     ChurnReceive DEF Churn!Next

LEMMA ChurnShow == ChurnInv => Churn!NewcomerIntroduced
<1> SUFFICES ASSUME ChurnInv, Churn!AtRest, NEW c \in members \ refused, NEW d \in owed[c]
             PROVE  Churn!Conn(c) \in peerNicks[d]
  BY DEF Churn!NewcomerIntroduced
<1>1. c \in Pair
  BY DEF ChurnInv, NickTypes
<1>2. outbox[c] = 0 /\ ~NumberComing(c) /\ replies = {}
  BY <1>1, SameCount DEF Churn!AtRest, Churn!None, NumberComing
<1> QED
  BY <1>2 DEF ChurnInv, WillIntroduce, Introduces

NickInv == (topic = "joins" => JoinsInv) /\ (topic = "churn" => ChurnInv)

LEMMA NickNext == NickInv /\ [SyncNext]_syncVars => NickInv'
<1> SUFFICES ASSUME NickInv, topic' = topic,
                    \/ topic = "joins" /\ Joins!Next
                    \/ topic = "churn" /\ Churn!Next
                    \/ UNCHANGED nickVars
             PROVE  NickInv'
  BY DEF SyncNext, syncVars
<1>1. CASE topic = "joins" /\ Joins!Next
  BY <1>1, JoinsNext DEF NickInv
<1>2. CASE topic = "churn" /\ Churn!Next
  BY <1>2, ChurnNext DEF NickInv
<1>3. CASE UNCHANGED nickVars
  <2> USE <1>3 DEF nickVars
  <2>1. JoinsInv => JoinsInv'
    BY DEF JoinsInv, NickTypes, NumbersBelow, WillAnnounce, Known, NewsComing, Online, Joins!Conn
  <2>2. ChurnInv => ChurnInv'
    BY DEF ChurnInv, NickTypes, OutsideNothing, OwedByMembers, WillIntroduce, Introduces,
           NumberComing, Churn!Conn
  <2> QED BY <2>1, <2>2 DEF NickInv
<1> QED
  BY <1>1, <1>2, <1>3

(* However many clients join, the nicks of all are known to all once       *)
(* everything is delivered, in whatever order; and however often they      *)
(* leave, come back and lose connections, whoever joins anew becomes known *)
(* to those who were there: but for those whose latest announcement the    *)
(* server's budgets refused (App.svelte, the effect that announces names   *)
(* when the online number rises; transport.go, set_nickname).              *)
THEOREM NewcomersBecomeKnown == SyncSpec => []NicksLearned
<1>1. SyncInit => NickInv
  BY JoinsInit, ChurnInit DEF SyncInit, NickInv
<1>2. NickInv => NicksLearned
  BY JoinsShow, ChurnShow DEF NickInv, NicksLearned
<1> QED
  BY <1>1, <1>2, NickNext, PTL DEF SyncSpec

-----------------------------------------------------------------------------
(* The room's name *)

NameTypes ==
    /\ present \subseteq Pair /\ rise \subseteq Pair
    /\ sending \in [Pair -> Seq(Name!Frames)] /\ arriving \in [Pair -> Seq(Name!Frames)]
    /\ relaying \in [Pair -> [frame : Name!Frames \cup {Name!NoFrame}, todo : SUBSET Pair]]
    /\ \A x \in Pair : relaying[x].todo # {} => relaying[x].frame \in Name!Frames
    /\ roomName \in [Pair -> Names \cup {Name!NoName}]
    /\ entries \in [Pair -> Seq(Names)]
    /\ renames \in Nat

(* Who has not joined has seen nothing of the room. *)
Outside ==
    \A d \in Pair \ present :
        roomName[d] = Name!NoName /\ arriving[d] = <<>> /\ \A x \in Pair : d \notin relaying[x].todo

FounderNamesIt == Founder \in present /\ roomName[Founder] # Name!NoName

(* A frame with a name that the server has not refused, or that is the     *)
(* founder's, is on its way to d, or the founder will send one.            *)
ToCome(d) ==
    \/ arriving[d] # <<>> \/ \E x \in Pair : d \in relaying[x].todo
    \/ sending[Founder] # <<>> \/ Founder \in rise

NameComing ==
    Founder \notin unnamed => \A d \in present : roomName[d] # Name!NoName \/ ToCome(d)

(* The places of a sequence that hold a rename, not an announcement *)
RenamesIn(q) == {i \in 1..Len(q) : ~q[i].initial}

(* The renames that the server has yet to write to c: those under way from *)
(* x, and at place 0 the one that x's handler is writing.                  *)
Upstream(c) ==
    {p \in Pair \X Nat :
        \/ p[2] \in RenamesIn(sending[p[1]])
        \/ p[2] = 0 /\ c \in relaying[p[1]].todo /\ ~relaying[p[1]].frame.initial}

(* A rename is in one place on its way to c's timeline. *)
EachCountsOnce ==
    \A c \in Pair :
        /\ IsFiniteSet(Upstream(c))
        /\ Cardinality(Upstream(c)) + Cardinality(RenamesIn(arriving[c])) + Len(entries[c]) <= renames

NameInv == NameTypes /\ Outside /\ FounderNamesIt /\ NameComing /\ EachCountsOnce

LEMMA FounderInPair == Founder \in Pair
  BY RoomAssumption DEF Founder

(* Counting renames in sequences of frames *)
LEMMA RenamesFinite ==
    ASSUME NEW q \in Seq(Name!Frames)
    PROVE  IsFiniteSet(RenamesIn(q)) /\ Cardinality(RenamesIn(q)) \in Nat /\ RenamesIn(q) \subseteq 1..Len(q)
<1>1. Len(q) \in Nat /\ RenamesIn(q) \in SUBSET (1..Len(q))
  BY LenProperties DEF RenamesIn
<1>2. IsFiniteSet(1..Len(q))
  BY <1>1, FS_Interval
<1> QED
  BY <1>1, <1>2, FS_Subset, FS_CardinalityType

LEMMA RenamesAppend ==
    ASSUME NEW q \in Seq(Name!Frames), NEW f \in Name!Frames
    PROVE  /\ Append(q, f) \in Seq(Name!Frames) /\ Append(q, f) # <<>>
           /\ RenamesIn(Append(q, f)) =
                 IF f.initial THEN RenamesIn(q) ELSE RenamesIn(q) \cup {Len(q) + 1}
           /\ Len(q) + 1 \notin RenamesIn(q)
           /\ Cardinality(RenamesIn(Append(q, f))) =
                 IF f.initial THEN Cardinality(RenamesIn(q)) ELSE Cardinality(RenamesIn(q)) + 1
<1>1. PICK r : r = Append(q, f)
  OBVIOUS
<1>2. /\ r \in Seq(Name!Frames) /\ r # <<>> /\ Len(r) = Len(q) + 1 /\ r[Len(q) + 1] = f
      /\ \A i \in 1..Len(q) : r[i] = q[i]
  BY <1>1, AppendProperties
<1>3. Len(q) \in Nat
  BY LenProperties
<1>4. Len(q) + 1 \notin RenamesIn(q)
  BY <1>3 DEF RenamesIn
<1>5. ASSUME NEW i PROVE i \in RenamesIn(r) <=> i \in RenamesIn(q) \/ (i = Len(q) + 1 /\ ~f.initial)
  <2>1. i \in 1..Len(r) <=> i \in 1..Len(q) \/ i = Len(q) + 1
    BY <1>2, <1>3
  <2>2. CASE i = Len(q) + 1
    BY <1>2, <1>4, <2>1, <2>2 DEF RenamesIn
  <2>3. CASE i # Len(q) + 1
    BY <1>2, <2>1, <2>3 DEF RenamesIn
  <2> QED BY <2>2, <2>3
<1>6. RenamesIn(r) = IF f.initial THEN RenamesIn(q) ELSE RenamesIn(q) \cup {Len(q) + 1}
  BY <1>5
<1>7. Cardinality(RenamesIn(r)) = IF f.initial THEN Cardinality(RenamesIn(q)) ELSE Cardinality(RenamesIn(q)) + 1
  BY <1>4, <1>6, RenamesFinite, FS_AddElement
<1> QED
  BY <1>1, <1>2, <1>4, <1>6, <1>7

LEMMA RenamesTail ==
    ASSUME NEW q \in Seq(Name!Frames), q # <<>>
    PROVE  /\ Tail(q) \in Seq(Name!Frames) /\ Head(q) \in Name!Frames
           /\ Head(q) = q[1] /\ 1 \in 1..Len(q)
           /\ \A i \in Nat : i \in RenamesIn(Tail(q)) => i + 1 \in RenamesIn(q) /\ i # 0
           /\ Cardinality(RenamesIn(Tail(q))) <=
                 IF Head(q).initial THEN Cardinality(RenamesIn(q)) ELSE Cardinality(RenamesIn(q)) - 1
<1>1. PICK r : r = Tail(q)
  OBVIOUS
<1>2. /\ r \in Seq(Name!Frames) /\ Head(q) \in Name!Frames /\ Len(r) = Len(q) - 1
      /\ \A i \in 1..Len(r) : r[i] = q[i + 1]
  BY <1>1, HeadTailProperties
<1>3. Len(q) \in Nat \ {0} /\ Head(q) = q[1] /\ 1 \in 1..Len(q)
  BY EmptySeq
<1>4. ASSUME NEW i \in RenamesIn(r) PROVE i \in Nat \ {0} /\ i + 1 \in RenamesIn(q) /\ i + 1 # 1
  <2>1. i \in 1..Len(r) /\ ~r[i].initial
    BY DEF RenamesIn
  <2>2. i + 1 \in 1..Len(q) /\ ~q[i + 1].initial
    BY <1>2, <1>3, <2>1
  <2> QED BY <2>1, <2>2 DEF RenamesIn
<1> DEFINE T == RenamesIn(q) \ {1}
           f == [i \in RenamesIn(r) |-> i + 1]
<1>5. IsFiniteSet(T) /\ Cardinality(T) = IF 1 \in RenamesIn(q) THEN Cardinality(RenamesIn(q)) - 1
                                                              ELSE Cardinality(RenamesIn(q))
  BY RenamesFinite, FS_RemoveElement
<1>6. 1 \in RenamesIn(q) <=> ~Head(q).initial
  BY <1>3 DEF RenamesIn
<1>7. f \in Injection(RenamesIn(r), T)
  <2>1. f \in [RenamesIn(r) -> T]
    BY <1>4
  <2>2. \A i, j \in RenamesIn(r) : f[i] = f[j] => i = j
    BY <1>4
  <2> HIDE DEF f
  <2> QED BY <2>1, <2>2, Fun_IsInj
<1>8. Cardinality(RenamesIn(r)) <= Cardinality(T)
  <2> HIDE DEF T, f
  <2> QED BY <1>5, <1>7, FS_Injection
<1>9. Cardinality(RenamesIn(r)) <=
          IF Head(q).initial THEN Cardinality(RenamesIn(q)) ELSE Cardinality(RenamesIn(q)) - 1
  <2> HIDE DEF T
  <2> QED BY <1>5, <1>6, <1>8
<1> QED
  BY <1>1, <1>2, <1>3, <1>4, <1>9

LEMMA UpstreamOneMore ==
    ASSUME NameTypes, EachCountsOnce, NEW d \in Pair, NEW p
    PROVE  /\ IsFiniteSet(Upstream(d) \cup {p})
           /\ Cardinality(Upstream(d) \cup {p}) + Cardinality(RenamesIn(arriving[d])) + Len(entries[d])
                 <= renames + 1
<1>1. /\ IsFiniteSet(Upstream(d))
      /\ Cardinality(Upstream(d)) + Cardinality(RenamesIn(arriving[d])) + Len(entries[d]) <= renames
  BY DEF EachCountsOnce
<1>2. arriving[d] \in Seq(Name!Frames) /\ Len(entries[d]) \in Nat /\ renames \in Nat
  BY DEF NameTypes
<1>3. Cardinality(Upstream(d)) \in Nat /\ Cardinality(RenamesIn(arriving[d])) \in Nat
  BY <1>1, <1>2, FS_CardinalityType, RenamesFinite
<1>4. /\ IsFiniteSet(Upstream(d) \cup {p})
      /\ \/ Cardinality(Upstream(d) \cup {p}) = Cardinality(Upstream(d))
         \/ Cardinality(Upstream(d) \cup {p}) = Cardinality(Upstream(d)) + 1
  BY <1>1, FS_AddElement
<1> QED
  BY <1>1, <1>2, <1>3, <1>4

LEMMA UpstreamNoMore ==
    ASSUME NameTypes, EachCountsOnce, NEW d \in Pair, NEW S, IsFiniteSet(S),
           Cardinality(S) <= Cardinality(Upstream(d))
    PROVE  Cardinality(S) + Cardinality(RenamesIn(arriving[d])) + Len(entries[d]) <= renames
<1>1. /\ IsFiniteSet(Upstream(d))
      /\ Cardinality(Upstream(d)) + Cardinality(RenamesIn(arriving[d])) + Len(entries[d]) <= renames
  BY DEF EachCountsOnce
<1>2. arriving[d] \in Seq(Name!Frames) /\ Len(entries[d]) \in Nat /\ renames \in Nat
  BY DEF NameTypes
<1>3. /\ Cardinality(Upstream(d)) \in Nat /\ Cardinality(RenamesIn(arriving[d])) \in Nat
      /\ Cardinality(S) \in Nat
  BY <1>1, <1>2, FS_CardinalityType, RenamesFinite
<1> QED
  BY <1>1, <1>2, <1>3

LEMMA NameInit == SyncInit => NameInv
<1> SUFFICES ASSUME Name!Init PROVE NameInv
  BY DEF SyncInit
<1> USE DEF Name!Init
<1>1. Name!FirstName \in Names /\ Name!FirstName # Name!NoName
  BY RoomAssumption DEF Name!FirstName
<1>2. NameTypes
  <2>1. Founder \in Pair
    BY FounderInPair
  <2> QED BY <1>1, <2>1 DEF NameTypes, Name!Idle
<1>3. Outside /\ FounderNamesIt /\ NameComing
  BY <1>1, FounderInPair DEF Outside, FounderNamesIt, NameComing, ToCome, Name!Idle
<1>4. ASSUME NEW c \in Pair
      PROVE  Upstream(c) = {} /\ RenamesIn(arriving[c]) = {} /\ Len(entries[c]) = 0
  <2>1. RenamesIn(<<>>) = {}
    BY DEF RenamesIn
  <2>2. Upstream(c) = {}
    BY <2>1 DEF Upstream, Name!Idle
  <2> QED BY <2>1, <2>2
<1>5. EachCountsOnce
  <2> SUFFICES ASSUME NEW c \in Pair
               PROVE  /\ IsFiniteSet(Upstream(c))
                      /\ Cardinality(Upstream(c)) + Cardinality(RenamesIn(arriving[c])) + Len(entries[c])
                            <= renames
    BY DEF EachCountsOnce
  <2>1. IsFiniteSet(Upstream(c)) /\ Cardinality(Upstream(c)) = 0 /\ Cardinality(RenamesIn(arriving[c])) = 0
    BY <1>4, FS_EmptySet
  <2>2. Len(entries[c]) = 0 /\ renames = 0
    BY <1>4
  <2> QED BY <2>1, <2>2
<1> QED
  BY <1>2, <1>3, <1>5 DEF NameInv

LEMMA NameRename ==
    ASSUME NameInv, NEW c \in Pair, NEW name \in Names, Name!Rename(c, name) PROVE NameInv'
<1> USE DEF NameInv
<1>1. PICK f : f = [name |-> name, initial |-> FALSE] /\ f \in Name!Frames /\ ~f.initial
  <2>1. [name |-> name, initial |-> FALSE] \in Name!Frames
    BY DEF Name!Frames
  <2>2. ~[name |-> name, initial |-> FALSE].initial
    OBVIOUS
  <2> QED BY <2>1, <2>2
<1>2. /\ renames' = renames + 1 /\ roomName' = [roomName EXCEPT ![c] = name]
      /\ sending' = [sending EXCEPT ![c] = Append(@, f)]
      /\ UNCHANGED <<present, rise, relaying, arriving, lastRoomName, entries, unnamed>>
      /\ c \in present
  BY <1>1 DEF Name!Rename, Name!Send
<1>3. name # Name!NoName
  BY RoomAssumption
<1>4. PICK q : q = sending[c] /\ q \in Seq(Name!Frames)
  BY DEF NameTypes
<1>5. /\ Append(q, f) \in Seq(Name!Frames) /\ Append(q, f) # <<>>
      /\ RenamesIn(Append(q, f)) = RenamesIn(q) \cup {Len(q) + 1}
  BY <1>1, <1>4, RenamesAppend
<1>6. \A x \in Pair : sending'[x] = IF x = c THEN Append(q, f) ELSE sending[x]
  BY <1>2, <1>4 DEF NameTypes
<1>7. NameTypes'
  BY <1>2, <1>4, <1>5 DEF NameTypes
<1>8. Outside' /\ FounderNamesIt' /\ NameComing'
  <2>1. \A x \in Pair : roomName[x] # Name!NoName => roomName'[x] # Name!NoName
    BY <1>2, <1>3 DEF NameTypes
  <2>2. \A x \in Pair : sending[x] # <<>> => sending'[x] # <<>>
    BY <1>5, <1>6
  <2>3. FounderNamesIt'
    BY <1>2, <2>1, FounderInPair DEF FounderNamesIt
  <2>4. ASSUME NEW d \in present, Founder \notin unnamed
        PROVE  (roomName[d] # Name!NoName \/ ToCome(d))'
    BY <1>2, <2>1, <2>2, <2>4, FounderInPair DEF NameComing, ToCome, NameTypes
  <2>5. Outside'
    BY <1>2 DEF Outside, NameTypes
  <2> QED BY <1>2, <2>3, <2>4, <2>5 DEF NameComing
<1>9. EachCountsOnce'
  <2> SUFFICES ASSUME NEW d \in Pair
               PROVE  /\ IsFiniteSet(Upstream(d)')
                      /\ Cardinality(Upstream(d)') + Cardinality(RenamesIn(arriving[d])) + Len(entries[d])
                            <= renames + 1
    BY <1>2 DEF EachCountsOnce, Upstream, RenamesIn
  <2>1. Len(q) + 1 \in Nat
    BY <1>4, LenProperties
  <2>2. Upstream(d)' = Upstream(d) \cup {<<c, Len(q) + 1>>}
    BY <1>2, <1>4, <1>5, <1>6, <2>1 DEF Upstream
  <2> QED
    BY <2>2, UpstreamOneMore
<1> QED
  BY <1>7, <1>8, <1>9

LEMMA NameJoin == ASSUME NameInv, NEW c \in Pair, Name!Join(c) PROVE NameInv'
<1> USE DEF NameInv
<1>1. /\ c \notin present /\ present' = present \cup {c} /\ rise' = rise \cup present'
      /\ UNCHANGED <<sending, relaying, arriving, roomName, lastRoomName, entries, renames>>
  BY DEF Name!Join
<1>2. NameTypes' /\ Outside' /\ FounderNamesIt'
  BY <1>1 DEF NameTypes, Outside, FounderNamesIt
<1>3. NameComing'
  <2>1. Founder \in rise'
    BY <1>1 DEF FounderNamesIt
  <2> QED BY <2>1 DEF NameComing, ToCome
<1>4. EachCountsOnce'
  BY <1>1 DEF EachCountsOnce, Upstream, RenamesIn
<1> QED
  BY <1>2, <1>3, <1>4

LEMMA NameAnnounce == ASSUME NameInv, NEW c \in Pair, Name!Announce(c) PROVE NameInv'
<1> USE DEF NameInv
<1>1. /\ rise' = rise \ {c}
      /\ UNCHANGED <<present, relaying, arriving, roomName, lastRoomName, entries, renames, unnamed>>
  BY DEF Name!Announce, Name!ghosts
<1>2. CASE roomName[c] = Name!NoName
  <2>1. sending' = sending
    BY <1>2 DEF Name!Announce
  <2>2. NameTypes' /\ Outside' /\ FounderNamesIt'
    BY <1>1, <2>1 DEF NameTypes, Outside, FounderNamesIt
  <2>3. NameComing'
    BY <1>1, <1>2, <2>1 DEF NameComing, ToCome, FounderNamesIt
  <2>4. EachCountsOnce'
    BY <1>1, <2>1 DEF EachCountsOnce, Upstream, RenamesIn
  <2> QED BY <2>2, <2>3, <2>4
<1>3. CASE roomName[c] # Name!NoName
  <2>1. PICK f : f = [name |-> roomName[c], initial |-> TRUE] /\ f \in Name!Frames /\ f.initial
    <3>1. roomName[c] \in Names
      BY <1>3 DEF NameTypes
    <3>2. [name |-> roomName[c], initial |-> TRUE] \in Name!Frames
      BY <3>1 DEF Name!Frames
    <3>3. [name |-> roomName[c], initial |-> TRUE].initial
      OBVIOUS
    <3> QED BY <3>2, <3>3
  <2>2. sending' = [sending EXCEPT ![c] = Append(@, f)]
    BY <1>3, <2>1 DEF Name!Announce, Name!Send
  <2>3. PICK q : q = sending[c] /\ q \in Seq(Name!Frames)
    BY DEF NameTypes
  <2>4. /\ Append(q, f) \in Seq(Name!Frames) /\ Append(q, f) # <<>>
        /\ RenamesIn(Append(q, f)) = RenamesIn(q)
    BY <2>1, <2>3, RenamesAppend
  <2>5. \A x \in Pair : sending'[x] = IF x = c THEN Append(q, f) ELSE sending[x]
    BY <2>2, <2>3 DEF NameTypes
  <2>6. NameTypes' /\ Outside' /\ FounderNamesIt'
    BY <1>1, <2>2, <2>3, <2>4 DEF NameTypes, Outside, FounderNamesIt
  <2>7. NameComing'
    BY <1>1, <2>4, <2>5, FounderInPair DEF NameComing, ToCome
  <2>8. EachCountsOnce'
    <3>1. \A d \in Pair : Upstream(d)' = Upstream(d)
      BY <1>1, <2>3, <2>4, <2>5 DEF Upstream
    <3>2. \A d \in Pair : RenamesIn(arriving[d])' = RenamesIn(arriving[d])
      BY <1>1 DEF RenamesIn
    <3> QED BY <1>1, <3>1, <3>2 DEF EachCountsOnce
  <2> QED BY <2>6, <2>7, <2>8
<1> QED
  BY <1>2, <1>3

(* The renames under way move down one place when x's handler takes one,   *)
(* whether it relays it or refuses it.                                     *)
LEMMA UpstreamTaken ==
    ASSUME NameTypes, NEW x \in Pair, relaying[x] = Name!Idle, sending[x] # <<>>,
           sending' = [sending EXCEPT ![x] = Tail(@)],
           \/ relaying' = relaying
           \/ relaying' = [relaying EXCEPT ![x] = [frame |-> Head(sending[x]), todo |-> present]],
           NEW c \in Pair, IsFiniteSet(Upstream(c))
    PROVE  /\ IsFiniteSet(Upstream(c)')
           /\ Cardinality(Upstream(c)') <= Cardinality(Upstream(c))
<1>1. PICK q : q = sending[x] /\ q \in Seq(Name!Frames) /\ q # <<>>
  BY DEF NameTypes
<1>2. /\ Head(q) \in Name!Frames /\ Head(q) = q[1] /\ 1 \in 1..Len(q)
      /\ \A i \in Nat : i \in RenamesIn(Tail(q)) => i + 1 \in RenamesIn(q) /\ i # 0
  BY <1>1, RenamesTail
<1>3. relaying[x].todo = {}
  BY DEF Name!Idle
<1>4. /\ sending'[x] = Tail(q) /\ (relaying'[x].todo = {} \/ relaying'[x].frame = Head(q))
      /\ \A y \in Pair : y # x => sending'[y] = sending[y] /\ relaying'[y] = relaying[y]
  BY <1>1, <1>3 DEF NameTypes
<1> DEFINE earlier == [p \in Upstream(c)' |-> IF p[1] = x THEN <<x, p[2] + 1>> ELSE p]
<1>5. ASSUME NEW p \in Upstream(c)', p[1] = x PROVE p[2] \in Nat /\ p = <<x, p[2]>> /\ p[2] + 1 \in RenamesIn(q)
  <2>1. p \in Pair \X Nat
    BY DEF Upstream
  <2>2. p[2] \in Nat /\ p = <<x, p[2]>>
    BY <1>5, <2>1
  <2>3. p[2] \in RenamesIn(Tail(q)) \/ (p[2] = 0 /\ ~Head(q).initial)
    BY <1>4, <1>5 DEF Upstream, RenamesIn
  <2>4. CASE p[2] \in RenamesIn(Tail(q))
    BY <1>2, <2>2, <2>4
  <2>5. CASE p[2] = 0 /\ ~Head(q).initial
    BY <1>2, <2>2, <2>5 DEF RenamesIn
  <2> QED BY <2>2, <2>3, <2>4, <2>5
<1>6. ASSUME NEW p \in Upstream(c)', p[1] # x PROVE p \in Upstream(c)
  BY <1>4, <1>6 DEF Upstream, RenamesIn
<1>7. ASSUME NEW p \in Upstream(c)' PROVE earlier[p] \in Upstream(c)
  <2>1. CASE p[1] = x
    <3>1. <<x, p[2] + 1>> \in Upstream(c)
      BY <1>1, <1>5, <2>1 DEF Upstream
    <3> QED BY <2>1, <3>1
  <2>2. CASE p[1] # x
    BY <1>6, <2>2
  <2> QED BY <2>1, <2>2
<1>8. ASSUME NEW p \in Upstream(c)', NEW r \in Upstream(c)', earlier[p] = earlier[r] PROVE p = r
  <2>1. /\ p[1] = x => earlier[p] = <<x, p[2] + 1>> /\ p[2] \in Nat /\ p = <<x, p[2]>>
        /\ p[1] # x => earlier[p] = p
        /\ r[1] = x => earlier[r] = <<x, r[2] + 1>> /\ r[2] \in Nat /\ r = <<x, r[2]>>
        /\ r[1] # x => earlier[r] = r
    BY <1>5
  <2> HIDE DEF earlier
  <2>2. p[1] = x <=> r[1] = x
    BY <1>8, <2>1
  <2>3. CASE p[1] = x
    BY <1>8, <2>1, <2>2, <2>3
  <2>4. CASE p[1] # x
    BY <1>8, <2>1, <2>2, <2>4
  <2> QED BY <2>3, <2>4
<1>9. earlier \in Injection(Upstream(c)', Upstream(c))
  <2>1. earlier \in [Upstream(c)' -> Upstream(c)]
    BY <1>7
  <2> HIDE DEF earlier
  <2> QED BY <1>8, <2>1, Fun_IsInj
<1> HIDE DEF earlier
<1> QED
  BY <1>9, FS_Injection

LEMMA NameTake == ASSUME NameInv, NEW c \in Pair, Name!Take(c) PROVE NameInv'
<1> USE DEF NameInv
<1>1. PICK q : q = sending[c] /\ q \in Seq(Name!Frames) /\ q # <<>>
  BY DEF NameTypes, Name!Take
<1>2. Tail(q) \in Seq(Name!Frames) /\ Head(q) \in Name!Frames
  BY <1>1, RenamesTail
<1>3. /\ relaying' = [relaying EXCEPT ![c] = [frame |-> Head(q), todo |-> present]]
      /\ sending' = [sending EXCEPT ![c] = Tail(q)]
      /\ relaying[c] = Name!Idle
      /\ UNCHANGED <<present, rise, arriving, roomName, lastRoomName, entries, renames>>
  BY <1>1 DEF Name!Take
<1>4. NameTypes'
  <2>1. /\ relaying' \in [Pair -> [frame : Name!Frames \cup {Name!NoFrame}, todo : SUBSET Pair]]
        /\ \A x \in Pair : relaying'[x].todo # {} => relaying'[x].frame \in Name!Frames
    BY <1>2, <1>3 DEF NameTypes
  <2>2. sending' \in [Pair -> Seq(Name!Frames)]
    BY <1>2, <1>3 DEF NameTypes
  <2> QED BY <1>3, <2>1, <2>2 DEF NameTypes
<1>5. Outside' /\ FounderNamesIt'
  BY <1>3 DEF Outside, FounderNamesIt, NameTypes
<1>6. NameComing'
  <2>1. \A d \in present : d \in relaying'[c].todo
    BY <1>3 DEF NameTypes
  <2> QED BY <1>3, <2>1 DEF NameComing, ToCome
<1>7. EachCountsOnce'
  <2> SUFFICES ASSUME NEW d \in Pair
               PROVE  /\ IsFiniteSet(Upstream(d)')
                      /\ Cardinality(Upstream(d)') + Cardinality(RenamesIn(arriving[d])) + Len(entries[d])
                            <= renames
    BY <1>3 DEF EachCountsOnce, Upstream, RenamesIn
  <2>1. IsFiniteSet(Upstream(d)') /\ Cardinality(Upstream(d)') <= Cardinality(Upstream(d))
    BY <1>1, <1>3, UpstreamTaken DEF EachCountsOnce
  <2> QED
    BY <2>1, UpstreamNoMore
<1> QED
  BY <1>4, <1>5, <1>6, <1>7

LEMMA NameRefuse == ASSUME NameInv, NEW c \in Pair, Name!Refuse(c) PROVE NameInv'
<1> USE DEF NameInv
<1>1. PICK q : q = sending[c] /\ q \in Seq(Name!Frames) /\ q # <<>>
  BY DEF NameTypes, Name!Refuse
<1>2. Tail(q) \in Seq(Name!Frames)
  BY <1>1, RenamesTail
<1>3. /\ sending' = [sending EXCEPT ![c] = Tail(@)] /\ unnamed' = unnamed \cup {c}
      /\ relaying[c] = Name!Idle
      /\ UNCHANGED <<present, rise, relaying, arriving, roomName, lastRoomName, entries, renames>>
  BY DEF Name!Refuse
<1>4. NameTypes' /\ Outside' /\ FounderNamesIt'
  BY <1>1, <1>2, <1>3 DEF NameTypes, Outside, FounderNamesIt
<1>5. NameComing'
  <2>1. c # Founder => sending'[Founder] = sending[Founder]
    BY <1>3, FounderInPair DEF NameTypes
  <2> QED BY <1>3, <2>1 DEF NameComing, ToCome
<1>6. EachCountsOnce'
  <2> SUFFICES ASSUME NEW d \in Pair
               PROVE  /\ IsFiniteSet(Upstream(d)')
                      /\ Cardinality(Upstream(d)') + Cardinality(RenamesIn(arriving[d])) + Len(entries[d])
                            <= renames
    BY <1>3 DEF EachCountsOnce, Upstream, RenamesIn
  <2>1. IsFiniteSet(Upstream(d)') /\ Cardinality(Upstream(d)') <= Cardinality(Upstream(d))
    BY <1>1, <1>3, UpstreamTaken DEF EachCountsOnce
  <2> QED
    BY <2>1, UpstreamNoMore
<1> QED
  BY <1>4, <1>5, <1>6

LEMMA NameWrite ==
    ASSUME NameInv, NEW c \in Pair, NEW d \in Pair, Name!Write(c, d) PROVE NameInv'
<1> USE DEF NameInv
<1>1. PICK f : f = relaying[c].frame
  OBVIOUS
<1>2. PICK others : others = relaying[c].todo \ {d}
  OBVIOUS
<1>3. /\ d \in relaying[c].todo
      /\ arriving' = [arriving EXCEPT ![d] = Append(@, f)]
      /\ relaying' = [relaying EXCEPT ![c] = IF others = {} THEN Name!Idle ELSE [@ EXCEPT !.todo = others]]
      /\ UNCHANGED <<present, rise, sending, roomName, lastRoomName, entries, renames, unnamed>>
  BY <1>1, <1>2 DEF Name!Write, Name!ghosts
<1>4. f \in Name!Frames
  BY <1>1, <1>3 DEF NameTypes
<1>5. relaying[c] = [frame |-> f, todo |-> relaying[c].todo] /\ others \in SUBSET Pair
  BY <1>1, <1>2 DEF NameTypes
<1>6. relaying' = [relaying EXCEPT ![c] =
                      IF others = {} THEN Name!Idle ELSE [frame |-> f, todo |-> others]]
  <2>1. [relaying[c] EXCEPT !.todo = others] = [frame |-> f, todo |-> others]
    BY <1>5
  <2> QED BY <1>3, <2>1
<1>7. /\ relaying'[c].todo = others /\ (others # {} => relaying'[c].frame = f)
      /\ \A x \in Pair : x # c => relaying'[x] = relaying[x]
  BY <1>6 DEF NameTypes, Name!Idle
<1>8. PICK q : q = arriving[d] /\ q \in Seq(Name!Frames)
  BY DEF NameTypes
<1>9. /\ Append(q, f) \in Seq(Name!Frames) /\ Append(q, f) # <<>>
      /\ Cardinality(RenamesIn(Append(q, f))) =
            IF f.initial THEN Cardinality(RenamesIn(q)) ELSE Cardinality(RenamesIn(q)) + 1
  BY <1>4, <1>8, RenamesAppend
<1>10. \A e \in Pair : arriving'[e] = IF e = d THEN Append(q, f) ELSE arriving[e]
  BY <1>3, <1>8 DEF NameTypes
<1>11. NameTypes'
  <2>1. arriving' \in [Pair -> Seq(Name!Frames)]
    BY <1>3, <1>8, <1>9 DEF NameTypes
  <2>2. [frame |-> f, todo |-> others] \in [frame : Name!Frames \cup {Name!NoFrame}, todo : SUBSET Pair]
    BY <1>4, <1>5
  <2>3. Name!Idle \in [frame : Name!Frames \cup {Name!NoFrame}, todo : SUBSET Pair]
    BY DEF Name!Idle
  <2>4. relaying' \in [Pair -> [frame : Name!Frames \cup {Name!NoFrame}, todo : SUBSET Pair]]
    BY <1>6, <2>2, <2>3 DEF NameTypes
  <2>5. \A x \in Pair : relaying'[x].todo # {} => relaying'[x].frame \in Name!Frames
    BY <1>4, <1>7 DEF NameTypes
  <2> QED BY <1>3, <2>1, <2>4, <2>5 DEF NameTypes
<1>12. Outside' /\ FounderNamesIt'
  <2>1. \A x \in Pair : relaying'[x].todo \subseteq relaying[x].todo
    BY <1>2, <1>7
  <2>2. d \in present
    BY <1>3 DEF Outside
  <2> QED BY <1>3, <1>10, <2>1, <2>2 DEF Outside, FounderNamesIt
<1>13. NameComing'
  <2> SUFFICES ASSUME NEW e \in present, roomName[e] = Name!NoName, Founder \notin unnamed PROVE ToCome(e)'
    BY <1>3 DEF NameComing
  <2>1. e \in Pair
    BY DEF NameTypes
  <2>2. ToCome(e)
    BY DEF NameComing
  <2>3. CASE e = d
    BY <1>9, <1>10, <2>3 DEF ToCome
  <2>4. CASE e # d
    <3>1. \A x \in Pair : e \in relaying[x].todo => e \in relaying'[x].todo
      BY <1>2, <1>7, <2>4
    <3> QED BY <1>3, <1>10, <2>1, <2>2, <2>4, <3>1 DEF ToCome
  <2> QED BY <2>3, <2>4
<1>14. EachCountsOnce'
  <2> SUFFICES ASSUME NEW e \in Pair
               PROVE  /\ IsFiniteSet(Upstream(e)')
                      /\ Cardinality(Upstream(e)') + Cardinality(RenamesIn(arriving[e])') + Len(entries[e])
                            <= renames
    BY <1>3 DEF EachCountsOnce
  <2>1. /\ IsFiniteSet(Upstream(e))
        /\ Cardinality(Upstream(e)) + Cardinality(RenamesIn(arriving[e])) + Len(entries[e]) <= renames
    BY DEF EachCountsOnce
  <2>2. Len(entries[e]) \in Nat /\ renames \in Nat
    BY DEF NameTypes
  <2>3. Cardinality(Upstream(e)) \in Nat /\ Cardinality(RenamesIn(arriving[e])) \in Nat
    BY <2>1, FS_CardinalityType, RenamesFinite DEF NameTypes
  <2>4. CASE e # d
    <3>1. Upstream(e)' = Upstream(e)
      BY <1>1, <1>2, <1>3, <1>7, <2>4 DEF Upstream
    <3>2. RenamesIn(arriving[e])' = RenamesIn(arriving[e])
      BY <1>10, <2>4 DEF RenamesIn
    <3> QED BY <2>1, <3>1, <3>2
  <2>5. CASE e = d
    <3>1. \A x \in Pair : 0 \notin RenamesIn(sending[x])
      BY RenamesFinite DEF NameTypes
    <3>2. Upstream(d)' = Upstream(d) \ {<<c, 0>>}
      BY <1>2, <1>3, <1>7, <3>1 DEF Upstream
    <3>3. <<c, 0>> \in Upstream(d) <=> ~f.initial
      BY <1>1, <1>3, <3>1 DEF Upstream
    <3>4. /\ IsFiniteSet(Upstream(d)')
          /\ Cardinality(Upstream(d)') =
                IF f.initial THEN Cardinality(Upstream(d)) ELSE Cardinality(Upstream(d)) - 1
      BY <2>1, <2>5, <3>2, <3>3, FS_RemoveElement
    <3>5. RenamesIn(arriving[d])' = RenamesIn(Append(q, f)) /\ q = arriving[e]
      BY <1>8, <1>10, <2>5 DEF RenamesIn
    <3>6. Cardinality(RenamesIn(arriving[d])') =
             IF f.initial THEN Cardinality(RenamesIn(arriving[e]))
                          ELSE Cardinality(RenamesIn(arriving[e])) + 1
      BY <1>9, <3>5
    <3>7. CASE f.initial
      BY <2>1, <2>5, <3>4, <3>6, <3>7
    <3>8. CASE ~f.initial
      BY <2>1, <2>2, <2>3, <2>5, <3>4, <3>6, <3>8
    <3> QED BY <3>7, <3>8
  <2> QED BY <2>4, <2>5
<1> QED
  BY <1>11, <1>12, <1>13, <1>14

LEMMA NameReceive == ASSUME NameInv, NEW c \in Pair, Name!Receive(c) PROVE NameInv'
<1> USE DEF NameInv
<1>1. PICK q : q = arriving[c] /\ q \in Seq(Name!Frames) /\ q # <<>>
  BY DEF NameTypes, Name!Receive
<1>2. PICK f : f = Head(q)
  OBVIOUS
<1>3. /\ Tail(q) \in Seq(Name!Frames) /\ f \in Name!Frames
      /\ Cardinality(RenamesIn(Tail(q))) <=
            IF f.initial THEN Cardinality(RenamesIn(q)) ELSE Cardinality(RenamesIn(q)) - 1
  BY <1>1, <1>2, RenamesTail
<1>4. f.name \in Names /\ f.name # Name!NoName
  BY <1>3, RoomAssumption DEF Name!Frames
<1>5. /\ roomName' = [roomName EXCEPT ![c] = f.name]
      /\ arriving' = [arriving EXCEPT ![c] = Tail(q)]
      /\ UNCHANGED <<present, rise, sending, relaying, renames, unnamed>>
  BY <1>1, <1>2 DEF Name!Receive, Name!Applied, Name!ghosts
<1>6. /\ \A e \in Pair : e # c => entries'[e] = entries[e]
      /\ entries' \in [Pair -> Seq(Names)]
      /\ \/ entries'[c] = entries[c]
         \/ ~f.initial /\ entries'[c] = Append(entries[c], f.name)
  <2>1. PICK shown \in BOOLEAN :
           /\ shown => ~f.initial
           /\ entries' = [entries EXCEPT ![c] = IF shown THEN Append(@, f.name) ELSE @]
    <3>1. entries' = [entries EXCEPT ![c] = IF lastRoomName[c] # f.name /\ Name!ShowsRename(f)
                                            THEN Append(@, f.name) ELSE @]
      BY <1>1, <1>2 DEF Name!Receive
    <3>2. CASE lastRoomName[c] # f.name /\ Name!ShowsRename(f)
      BY <3>1, <3>2 DEF Name!ShowsRename
    <3>3. CASE ~(lastRoomName[c] # f.name /\ Name!ShowsRename(f))
      BY <3>1, <3>3
    <3> QED BY <3>2, <3>3
  <2>2. entries[c] \in Seq(Names) /\ Append(entries[c], f.name) \in Seq(Names)
    BY <1>4 DEF NameTypes
  <2> QED BY <2>1, <2>2 DEF NameTypes
<1>7. NameTypes'
  BY <1>3, <1>4, <1>5, <1>6 DEF NameTypes
<1>8. roomName'[c] # Name!NoName /\ \A e \in Pair : e # c => roomName'[e] = roomName[e]
  BY <1>4, <1>5 DEF NameTypes
<1>9. Outside' /\ FounderNamesIt'
  <2>1. c \in present
    BY <1>1 DEF Outside
  <2> QED BY <1>5, <1>8, <2>1, FounderInPair DEF Outside, FounderNamesIt, NameTypes
<1>10. NameComing'
  <2> SUFFICES ASSUME NEW e \in present, e # c, roomName[e] = Name!NoName, Founder \notin unnamed PROVE ToCome(e)'
    BY <1>5, <1>8 DEF NameComing, NameTypes
  <2>1. ToCome(e)
    BY DEF NameComing
  <2>2. arriving'[e] = arriving[e]
    BY <1>5 DEF NameTypes
  <2> QED BY <1>5, <2>1, <2>2 DEF ToCome
<1>11. EachCountsOnce'
  <2> SUFFICES ASSUME NEW e \in Pair
               PROVE  Cardinality(Upstream(e)) + Cardinality(RenamesIn(arriving[e])') + Len(entries'[e])
                            <= renames
    BY <1>5 DEF EachCountsOnce, Upstream
  <2>1. /\ IsFiniteSet(Upstream(e))
        /\ Cardinality(Upstream(e)) + Cardinality(RenamesIn(arriving[e])) + Len(entries[e]) <= renames
    BY DEF EachCountsOnce
  <2>2. Len(entries[e]) \in Nat /\ renames \in Nat
    BY DEF NameTypes
  <2>3. Cardinality(Upstream(e)) \in Nat /\ Cardinality(RenamesIn(arriving[e])) \in Nat
    BY <2>1, FS_CardinalityType, RenamesFinite DEF NameTypes
  <2>4. CASE e # c
    <3>1. RenamesIn(arriving[e])' = RenamesIn(arriving[e])
      BY <1>5, <2>4 DEF RenamesIn, NameTypes
    <3> QED BY <1>6, <2>1, <2>4, <3>1
  <2>5. CASE e = c
    <3>1. RenamesIn(arriving[c])' = RenamesIn(Tail(q))
      BY <1>5 DEF RenamesIn, NameTypes
    <3>2. Cardinality(RenamesIn(Tail(q))) \in Nat
      BY <1>3, RenamesFinite
    <3>3. Cardinality(RenamesIn(arriving[e])') <=
             IF f.initial THEN Cardinality(RenamesIn(arriving[e]))
                          ELSE Cardinality(RenamesIn(arriving[e])) - 1
      BY <1>1, <1>3, <2>5, <3>1
    <3>4. \/ Len(entries'[e]) = Len(entries[e])
          \/ ~f.initial /\ Len(entries'[e]) = Len(entries[e]) + 1
      <4>1. CASE entries'[c] = entries[c]
        BY <2>5, <4>1
      <4>2. CASE ~f.initial /\ entries'[c] = Append(entries[c], f.name)
        <5>1. entries[c] \in Seq(Names)
          BY DEF NameTypes
        <5>2. Len(Append(entries[c], f.name)) = Len(entries[c]) + 1
          BY <1>4, <5>1, AppendProperties
        <5> QED BY <2>5, <4>2, <5>2
      <4> QED BY <1>6, <4>1, <4>2
    <3> QED
      BY <2>1, <2>2, <2>3, <2>5, <3>1, <3>2, <3>3, <3>4
  <2> QED BY <2>4, <2>5
<1> QED
  BY <1>7, <1>9, <1>10, <1>11

LEMMA NameNext == NameInv /\ [SyncNext]_syncVars => NameInv'
<1> SUFFICES ASSUME NameInv, Name!Next \/ UNCHANGED nameVars PROVE NameInv'
  BY DEF SyncNext, syncVars
<1>1. CASE Name!Next
  BY <1>1, NameRename, NameJoin, NameAnnounce, NameTake, NameRefuse, NameWrite, NameReceive
     DEF Name!Next
<1>2. CASE UNCHANGED nameVars
  BY <1>2 DEF nameVars, NameInv, NameTypes, Outside, FounderNamesIt, NameComing, ToCome, EachCountsOnce,
              Upstream, RenamesIn
<1> QED
  BY <1>1, <1>2

(* Every frame under way is in F. *)
AllFrames(F) ==
    \A c \in Pair : /\ sending[c] \in Seq(F) /\ arriving[c] \in Seq(F)
                    /\ relaying[c].todo # {} => relaying[c].frame \in F

Named(n) == [name : {n}, initial : BOOLEAN]
RenameFrames == [name : Names, initial : {FALSE}]

(* A frame is on its way to d. *)
Coming(d) ==
    /\ d \in present
    /\ arriving[d] # <<>> \/ \E x \in Pair : d \in relaying[x].todo \/ sending[x] # <<>>

(* All frames have the name n, and so has everybody who has a name, but    *)
(* for those whom a rename to n, made when all was quiet, is to reach.     *)
Agreed(n) ==
    /\ AllFrames(Named(n))
    /\ \A d \in Pair : \/ roomName[d] \in {n, Name!NoName}
                       \/ rise = {} /\ AllFrames(RenameFrames) /\ Coming(d)

Agreement == disturbed \/ \E n \in Names : Agreed(n)

(* Frames in sequences *)
LEMMA FramesAppend == \A F : \A q \in Seq(F) : \A f \in F : Append(q, f) \in Seq(F)
  BY AppendProperties

LEMMA FramesTail ==
    \A F : \A q \in Seq(F) : q # <<>> => Tail(q) \in Seq(F) /\ Head(q) \in F /\ Head(q) = q[1]
                                         /\ 1 \in 1..Len(q)
  BY HeadTailProperties, EmptySeq

LEMMA AgreeInit == SyncInit => Agreement
<1> SUFFICES ASSUME Name!Init PROVE Agreed(Name!FirstName) /\ Name!FirstName \in Names
  BY DEF SyncInit, Agreement
<1>1. Name!FirstName \in Names
  BY RoomAssumption DEF Name!FirstName
<1>2. \A F : <<>> \in Seq(F)
  BY EmptySeq
<1>3. AllFrames(Named(Name!FirstName))
  BY <1>2 DEF AllFrames, Name!Init, Name!Idle
<1> QED
  BY <1>1, <1>3 DEF Agreed, Name!Init

(* Frames under way stay what they are. *)
LEMMA FramesMove ==
    ASSUME NameTypes, NEW F, AllFrames(F), NEW c \in Pair,
           Name!Take(c) \/ Name!Refuse(c) \/ Name!Receive(c) \/ \E d \in Pair : Name!Write(c, d)
    PROVE  AllFrames(F)'
<1> SUFFICES ASSUME NEW x \in Pair
             PROVE  /\ sending'[x] \in Seq(F) /\ arriving'[x] \in Seq(F)
                    /\ relaying'[x].todo # {} => relaying'[x].frame \in F
  BY DEF AllFrames
<1> USE DEF AllFrames
<1>1. CASE Name!Take(c)
  <2>1. Tail(sending[c]) \in Seq(F) /\ Head(sending[c]) \in F
    BY <1>1, FramesTail DEF Name!Take
  <2> QED BY <1>1, <2>1 DEF Name!Take, NameTypes
<1>2. CASE Name!Refuse(c)
  <2>1. Tail(sending[c]) \in Seq(F)
    BY <1>2, FramesTail DEF Name!Refuse
  <2> QED BY <1>2, <2>1 DEF Name!Refuse, NameTypes
<1>3. CASE Name!Receive(c)
  <2>1. Tail(arriving[c]) \in Seq(F)
    BY <1>3, FramesTail DEF Name!Receive
  <2> QED BY <1>3, <2>1 DEF Name!Receive, NameTypes
<1>4. ASSUME NEW d \in Pair, Name!Write(c, d)
      PROVE  /\ sending'[x] \in Seq(F) /\ arriving'[x] \in Seq(F)
             /\ relaying'[x].todo # {} => relaying'[x].frame \in F
  <2>1. relaying[c].frame \in F
    BY <1>4 DEF Name!Write
  <2>2. Append(arriving[d], relaying[c].frame) \in Seq(F)
    BY <2>1, FramesAppend
  <2>3. relaying'[x].todo # {} => relaying'[x].frame = relaying[x].frame /\ relaying[x].todo # {}
    <3>1. CASE x # c
      BY <1>4, <3>1 DEF Name!Write, NameTypes
    <3>2. CASE x = c
      <4>1. PICK others : others = relaying[c].todo \ {d}
        OBVIOUS
      <4>2. relaying'[c] = IF others = {} THEN Name!Idle ELSE [relaying[c] EXCEPT !.todo = others]
        BY <1>4, <4>1 DEF Name!Write, NameTypes
      <4>3. relaying[c].todo # {}
        BY <1>4 DEF Name!Write
      <4>4. relaying[c] = [frame |-> relaying[c].frame, todo |-> relaying[c].todo]
        BY DEF NameTypes
      <4>5. CASE others = {}
        BY <3>2, <4>2, <4>5 DEF Name!Idle
      <4>6. CASE others # {}
        BY <3>2, <4>2, <4>3, <4>4, <4>6
      <4> QED BY <4>5, <4>6
    <3> QED BY <3>1, <3>2
  <2> QED BY <1>4, <2>2, <2>3 DEF Name!Write, NameTypes
<1> QED
  BY <1>1, <1>2, <1>3, <1>4

(* What is on its way to somebody stays so until it has arrived. *)
LEMMA ComingStays ==
    ASSUME NameTypes, NEW c \in Pair, NEW e \in Pair, Coming(e),
           \/ Name!Take(c) \/ (Name!Receive(c) /\ e # c)
           \/ \E d \in Pair : Name!Write(c, d)
    PROVE  Coming(e)'
<1>1. CASE Name!Take(c)
  <2>1. relaying'[c].todo = present /\ present' = present /\ arriving' = arriving
    BY <1>1 DEF Name!Take, NameTypes
  <2> QED BY <2>1 DEF Coming
<1>2. CASE Name!Receive(c) /\ e # c
  BY <1>2 DEF Name!Receive, Coming, NameTypes
<1>3. ASSUME NEW d \in Pair, Name!Write(c, d) PROVE Coming(e)'
  <2>1. CASE e = d
    <3>1. arriving'[e] = Append(arriving[e], relaying[c].frame) /\ arriving[e] \in Seq(Name!Frames)
      BY <1>3, <2>1 DEF Name!Write, NameTypes
    <3>2. relaying[c].frame \in Name!Frames
      BY <1>3 DEF Name!Write, NameTypes
    <3>3. arriving'[e] # <<>>
      BY <3>1, <3>2, AppendProperties
    <3> QED BY <1>3, <3>3 DEF Coming, Name!Write
  <2>2. CASE e # d
    <3>1. \A x \in Pair : e \in relaying[x].todo => e \in relaying'[x].todo
      BY <1>3, <2>2 DEF Name!Write, NameTypes
    <3>2. arriving'[e] = arriving[e]
      BY <1>3, <2>2 DEF Name!Write, NameTypes
    <3> QED BY <1>3, <3>1, <3>2 DEF Coming, Name!Write
  <2> QED BY <2>1, <2>2
<1> QED
  BY <1>1, <1>2, <1>3

(* A rename that is to reach somebody is under way. *)
LEMMA ComingRename ==
    ASSUME NameTypes, AllFrames(RenameFrames), NEW e \in Pair, Coming(e)
    PROVE  Name!RenameUnderWay
<1>1. ASSUME NEW q \in Seq(RenameFrames), q # <<>> PROVE Name!HasRename(q)
  <2>1. q[1] \in RenameFrames /\ 1 \in 1..Len(q)
    BY <1>1, FramesTail
  <2>2. ~q[1].initial
    BY <2>1 DEF RenameFrames
  <2> QED BY <2>1, <2>2 DEF Name!HasRename
<1>2. ASSUME NEW x \in Pair, e \in relaying[x].todo PROVE Name!RenameUnderWay
  <2>1. relaying[x].todo # {} /\ relaying[x].frame \in RenameFrames
    BY <1>2 DEF AllFrames
  <2> QED BY <2>1 DEF Name!RenameUnderWay, RenameFrames
<1>3. ASSUME NEW x \in Pair, sending[x] # <<>> PROVE Name!RenameUnderWay
  BY <1>1, <1>3 DEF AllFrames, Name!RenameUnderWay
<1>4. arriving[e] # <<>> => Name!RenameUnderWay
  BY <1>1 DEF AllFrames, Name!RenameUnderWay
<1> QED
  BY <1>2, <1>3, <1>4 DEF Coming

(* With that excluded, everybody who has a name has n. *)
LEMMA AgreeCalm ==
    ASSUME NEW n \in Names, AllFrames(Named(n))',
           \A d \in Pair : roomName'[d] \in {n, Name!NoName}
    PROVE  Agreement'
  BY DEF Agreement, Agreed

LEMMA AgreeRename ==
    ASSUME NameInv, NEW c \in Pair, NEW name \in Names, Name!Rename(c, name) PROVE Agreement'
<1> USE DEF NameInv
<1>1. CASE ~Name!AtRest
  BY <1>1 DEF Name!Rename, Agreement
<1>2. CASE Name!AtRest
  <2>1. PICK f : f = [name |-> name, initial |-> FALSE]
    OBVIOUS
  <2>2. f \in Named(name) /\ f \in RenameFrames
    BY <2>1 DEF Named, RenameFrames
  <2>3. /\ rise' = {} /\ present' = present /\ c \in present
        /\ \A x \in Pair : /\ sending'[x] = IF x = c THEN <<f>> ELSE <<>>
                           /\ arriving'[x] = <<>> /\ relaying'[x].todo = {}
                           /\ roomName'[x] = IF x = c THEN name ELSE roomName[x]
    <3>1. rise' = {} /\ present' = present /\ c \in present
      BY <1>2 DEF Name!Rename, Name!AtRest
    <3>2. \A x \in Pair : sending[x] = <<>> /\ arriving'[x] = <<>> /\ relaying'[x].todo = {}
      BY <1>2 DEF Name!Rename, Name!AtRest, Name!Idle
    <3>3. sending' = [sending EXCEPT ![c] = Append(sending[c], f)]
      BY <2>1 DEF Name!Rename, Name!Send
    <3>4. Append(<<>>, f) = <<f>>
      OBVIOUS
    <3>5. \A x \in Pair : sending'[x] = IF x = c THEN <<f>> ELSE <<>>
      BY <3>2, <3>3, <3>4 DEF NameTypes
    <3>6. \A x \in Pair : roomName'[x] = IF x = c THEN name ELSE roomName[x]
      BY DEF Name!Rename, NameTypes
    <3> QED BY <3>1, <3>2, <3>5, <3>6
  <2>4. ASSUME NEW F, f \in F PROVE AllFrames(F)'
    <3>1. <<>> \in Seq(F) /\ <<f>> \in Seq(F)
      BY <2>4
    <3> QED BY <2>3, <3>1 DEF AllFrames
  <2>5. ASSUME NEW d \in Pair, roomName'[d] \notin {name, Name!NoName} PROVE Coming(d)'
    <3>1. d \in present
      BY <2>3, <2>5 DEF Outside
    <3>2. sending'[c] # <<>>
      BY <2>3
    <3> QED BY <2>3, <3>1, <3>2 DEF Coming
  <2>6. AllFrames(Named(name))' /\ AllFrames(RenameFrames)'
    BY <2>2, <2>4
  <2>7. Agreed(name)'
    BY <2>3, <2>5, <2>6 DEF Agreed
  <2> QED BY <2>7 DEF Agreement
<1> QED
  BY <1>1, <1>2

LEMMA AgreeJoin ==
    ASSUME NameInv, Agreement, NEW c \in Pair, Name!Join(c) PROVE Agreement'
<1>1. CASE disturbed \/ Name!RenameUnderWay
  BY <1>1 DEF Name!Join, Agreement
<1>2. CASE ~(disturbed \/ Name!RenameUnderWay)
  <2>1. PICK n \in Names : Agreed(n)
    BY <1>2 DEF Agreement
  <2>2. \A d \in Pair : roomName[d] \in {n, Name!NoName}
    BY <1>2, <2>1, ComingRename DEF Agreed, NameInv
  <2>3. AllFrames(Named(n))' /\ roomName' = roomName
    BY <2>1 DEF Agreed, AllFrames, Name!Join
  <2> QED BY <2>2, <2>3, AgreeCalm
<1> QED
  BY <1>1, <1>2

LEMMA AgreeAnnounce ==
    ASSUME NameInv, Agreement, NEW c \in Pair, Name!Announce(c) PROVE Agreement'
<1>1. CASE disturbed
  BY <1>1 DEF Name!Announce, Name!ghosts, Agreement
<1>2. CASE ~disturbed
  <2>1. PICK n \in Names : Agreed(n)
    BY <1>2 DEF Agreement
  <2>2. \A d \in Pair : roomName[d] \in {n, Name!NoName}
    BY <2>1 DEF Agreed, Name!Announce
  <2>3. roomName' = roomName /\ arriving' = arriving /\ relaying' = relaying
    BY DEF Name!Announce
  <2>4. \A x \in Pair : sending'[x] \in Seq(Named(n))
    <3>1. \A x \in Pair : sending[x] \in Seq(Named(n))
      BY <2>1 DEF Agreed, AllFrames
    <3>2. CASE roomName[c] = Name!NoName
      BY <3>1, <3>2 DEF Name!Announce
    <3>3. CASE roomName[c] # Name!NoName
      <4>1. [name |-> roomName[c], initial |-> TRUE] \in Named(n)
        BY <2>2, <3>3 DEF Named
      <4>2. Append(sending[c], [name |-> roomName[c], initial |-> TRUE]) \in Seq(Named(n))
        BY <3>1, <4>1, FramesAppend
      <4> QED BY <3>1, <3>3, <4>2 DEF Name!Announce, Name!Send, NameInv, NameTypes
    <3> QED BY <3>2, <3>3
  <2>5. AllFrames(Named(n))'
    BY <2>1, <2>3, <2>4 DEF Agreed, AllFrames
  <2> QED BY <2>2, <2>3, <2>5, AgreeCalm
<1> QED
  BY <1>1, <1>2

LEMMA AgreeRefuse ==
    ASSUME NameInv, Agreement, NEW c \in Pair, Name!Refuse(c) PROVE Agreement'
<1>1. CASE disturbed \/ ~Head(sending[c]).initial
  BY <1>1 DEF Name!Refuse, Agreement
<1>2. CASE ~(disturbed \/ ~Head(sending[c]).initial)
  <2>1. PICK n \in Names : Agreed(n)
    BY <1>2 DEF Agreement
  <2>2. ~AllFrames(RenameFrames)
    <3>1. Head(sending[c]) \notin RenameFrames
      BY <1>2 DEF RenameFrames
    <3> QED BY <3>1, FramesTail DEF AllFrames, Name!Refuse
  <2>3. \A d \in Pair : roomName[d] \in {n, Name!NoName}
    BY <2>1, <2>2 DEF Agreed
  <2>4. AllFrames(Named(n))' /\ roomName' = roomName
    BY <2>1, FramesMove DEF Agreed, Name!Refuse, NameInv
  <2> QED BY <2>3, <2>4, AgreeCalm
<1> QED
  BY <1>1, <1>2

LEMMA AgreeMove ==
    ASSUME NameInv, Agreement, NEW c \in Pair,
           Name!Take(c) \/ Name!Receive(c) \/ \E d \in Pair : Name!Write(c, d)
    PROVE  Agreement'
<1>1. CASE disturbed
  BY <1>1 DEF Name!Take, Name!Receive, Name!Write, Name!ghosts, Agreement
<1>2. CASE ~disturbed
  <2>1. PICK n \in Names : Agreed(n)
    BY <1>2 DEF Agreement
  <2>2. AllFrames(Named(n))'
    BY <2>1, FramesMove DEF Agreed, NameInv
  <2>3. AllFrames(RenameFrames) => AllFrames(RenameFrames)'
    BY FramesMove DEF NameInv
  <2>4. rise' = rise
    BY DEF Name!Take, Name!Receive, Name!Write
  <2>5. ASSUME NEW e \in Pair
        PROVE  \/ roomName'[e] \in {n, Name!NoName}
               \/ rise' = {} /\ AllFrames(RenameFrames)' /\ Coming(e)'
    <3>1. CASE Name!Receive(c) /\ e = c
      <4>1. Head(arriving[c]) \in Named(n)
        BY <2>1, <3>1, FramesTail DEF Agreed, AllFrames, Name!Receive
      <4>2. roomName'[c] = Head(arriving[c]).name
        BY <3>1 DEF Name!Receive, Name!Applied, NameInv, NameTypes
      <4> QED BY <3>1, <4>1, <4>2 DEF Named
    <3>2. CASE ~(Name!Receive(c) /\ e = c)
      <4>1. roomName'[e] = roomName[e]
        BY <3>2 DEF Name!Take, Name!Receive, Name!Write, NameInv, NameTypes
      <4>2. Coming(e) => Coming(e)'
        BY <3>2, ComingStays DEF NameInv
      <4> QED BY <2>1, <2>3, <2>4, <4>1, <4>2 DEF Agreed
    <3> QED BY <3>1, <3>2
  <2>6. Agreed(n)'
    BY <2>2, <2>5 DEF Agreed
  <2> QED BY <2>6 DEF Agreement
<1> QED
  BY <1>1, <1>2

LEMMA AgreeNext == NameInv /\ Agreement /\ [SyncNext]_syncVars => Agreement'
<1> SUFFICES ASSUME NameInv, Agreement, Name!Next \/ UNCHANGED nameVars PROVE Agreement'
  BY DEF SyncNext, syncVars
<1>1. CASE Name!Next
  BY <1>1, AgreeRename, AgreeJoin, AgreeAnnounce, AgreeRefuse, AgreeMove DEF Name!Next
<1>2. CASE UNCHANGED nameVars
  BY <1>2 DEF nameVars, Agreement, Agreed, AllFrames, Coming
<1> QED
  BY <1>1, <1>2

LEMMA NameShows == NameInv /\ Agreement => NewcomersLearnName
<1> SUFFICES ASSUME NameInv, Agreement PROVE Name!NewcomersLearnName
  BY DEF NewcomersLearnName
<1> USE DEF NameInv
<1>1. ASSUME Name!AtRest, Founder \notin unnamed, NEW d \in present PROVE roomName[d] # Name!NoName
  <2>1. d \in Pair
    BY DEF NameTypes
  <2>2. ~ToCome(d)
    BY <1>1, <2>1, FounderInPair DEF Name!AtRest, ToCome, Name!Idle
  <2> QED BY <1>1, <2>2 DEF NameComing
<1>2. ASSUME Name!AtRest, ~disturbed, NEW c \in present, NEW d \in present
      PROVE  Name!NoName \in {roomName[c], roomName[d]} \/ roomName[c] = roomName[d]
  <2>1. PICK n \in Names : Agreed(n)
    BY <1>2 DEF Agreement
  <2>2. \A e \in Pair : ~Coming(e)
    BY <1>2 DEF Name!AtRest, Coming, Name!Idle
  <2>3. c \in Pair /\ d \in Pair
    BY DEF NameTypes
  <2> QED BY <2>1, <2>2, <2>3 DEF Agreed
<1>3. ASSUME NEW c \in Pair PROVE Len(entries[c]) <= renames
  <2>1. /\ IsFiniteSet(Upstream(c))
        /\ Cardinality(Upstream(c)) + Cardinality(RenamesIn(arriving[c])) + Len(entries[c]) <= renames
    BY DEF EachCountsOnce
  <2>2. Len(entries[c]) \in Nat /\ renames \in Nat
    BY DEF NameTypes
  <2>3. Cardinality(Upstream(c)) \in Nat /\ Cardinality(RenamesIn(arriving[c])) \in Nat
    BY <2>1, FS_CardinalityType, RenamesFinite DEF NameTypes
  <2> QED BY <2>1, <2>2, <2>3
<1> QED
  BY <1>1, <1>2, <1>3 DEF Name!NewcomersLearnName

(* Whatever joins and announcements overlap, everybody in the room gets a  *)
(* name for it unless the founder is refused; after renames that reach the *)
(* room alone everybody who has a name has the same; and the timeline      *)
(* shows a rename once at most (App.svelte, the same effect;               *)
(* channel.svelte.ts, room_name_updated; transport.go, set_room_name).     *)
THEOREM NameReachesNewcomers == SyncSpec => []NewcomersLearnName
<1>1. NameInv /\ Agreement /\ [SyncNext]_syncVars => (NameInv /\ Agreement)'
  BY NameNext, AgreeNext
<1> QED
  BY <1>1, NameInit, AgreeInit, NameShows, PTL DEF SyncSpec

-----------------------------------------------------------------------------
(* Frames on their way *)

(* A frame of a client has a payload, if any, with no more characters than *)
(* code units.                                                             *)
ByClient(m) ==
    /\ m.type \in CLIENT_TYPES
    /\ "payload" \in DOMAIN m => m.payload.runes \in Nat /\ m.payload.units \in Nat
                                 /\ m.payload.runes <= m.payload.units

FrameInv ==
    /\ inner \in Nat \cup {-1}
    /\ place \in {"client", "wire"} => ByClient(frame)
    /\ place = "wire" => encode(frame)
    /\ place = "relayed" => frame.type \in RelayedTypes /\ Complete(frame)
    /\ inner # -1 => /\ place = "client" => \E t \in PayloadTypes :
                           frame = [type |-> t, channelId |-> "id", payload |-> Sealed(inner)]
                     /\ place # "refused by encode"
                     /\ place = "refused by budget" => EnvelopeLength(inner) > MaxPayload
    /\ place \notin {"refused by server", "refused by decode"}

(* 6098 bytes are the most that fit. *)
LEMMA BudgetFits ==
    ASSUME NEW n \in Nat
    PROVE  EnvelopeLength(n) \in Nat /\ (n <= MAX_INNER_UTF8 <=> EnvelopeLength(n) <= MaxPayload)
<1>1. Base64Length(12) = 16 /\ Base64Length(16) = 22
  BY DEF Base64Length
<1>2. Base64Length(n + 16) = (4 * n + 66) \div 3
  BY DEF Base64Length
<1>3. EnvelopeLength(n) = 40 + (4 * n + 66) \div 3
  BY <1>1, <1>2 DEF EnvelopeLength
<1>4. (4 * n + 66) \div 3 \in Nat /\ (n <= 6098 <=> (4 * n + 66) \div 3 <= 8152)
  OBVIOUS
<1> QED
  BY <1>3, <1>4 DEF MAX_INNER_UTF8, MaxPayload

LEMMA FieldsOfTypes ==
    /\ Fields("create_channel") = {}
    /\ \A t \in {"join_channel", "leave_channel"} : Fields(t) = {"channelId"}
    /\ \A t \in PayloadTypes : Fields(t) = {"channelId", "payload"} /\ Relayed(t) \in RelayedTypes
    /\ \A t \in RelayedTypes : Fields(t) = {"channelId", "payload", "from"}
<1>1. Fields("create_channel") = {}
  BY DEF Fields, PayloadTypes, RelayedTypes
<1>2. \A t \in {"join_channel", "leave_channel"} : Fields(t) = {"channelId"}
  BY DEF Fields, PayloadTypes, RelayedTypes
<1>3. \A t \in PayloadTypes : Fields(t) = {"channelId", "payload"}
  BY DEF Fields, PayloadTypes, RelayedTypes
<1>4. \A t \in PayloadTypes : Relayed(t) \in RelayedTypes
  BY DEF PayloadTypes, Relayed, RelayedTypes
<1>5. \A t \in RelayedTypes : Fields(t) = {"channelId", "payload", "from"}
  BY DEF Fields, PayloadTypes, RelayedTypes
<1> QED
  BY <1>1, <1>2, <1>3, <1>4, <1>5

LEMMA TypesOfClients ==
    \A t \in CLIENT_TYPES :
        /\ t = "create_channel" \/ t \in {"join_channel", "leave_channel"} \/ t \in PayloadTypes
        /\ t \notin {"joined", "online_count", "error"} /\ "message" \notin Fields(t)
<1>1. \A t \in CLIENT_TYPES :
        /\ t = "create_channel" \/ t \in {"join_channel", "leave_channel"} \/ t \in PayloadTypes
        /\ t \notin {"joined", "online_count", "error"}
  BY DEF CLIENT_TYPES, PayloadTypes
<1> QED
  BY <1>1, FieldsOfTypes

(* What a client writes, the server accepts. *)
LEMMA WrittenIsAccepted == ASSUME NEW m, ByClient(m), encode(m) PROVE Decode(m)
<1>1. m.type \in CLIENT_TYPES
  BY DEF ByClient
<1>2. Complete(m)
  BY <1>1, TypesOfClients DEF encode, Complete
<1>3. "payload" \in Fields(m.type) => CountsRunes(m.payload)
  <2> SUFFICES ASSUME "payload" \in Fields(m.type) PROVE m.payload.runes <= MaxPayload
    BY DEF CountsRunes
  <2>1. "payload" \in DOMAIN m /\ m.payload.units <= MaxPayload
    BY <1>2 DEF encode, assertPayload, Complete
  <2>2. MaxPayload \in Nat
    BY DEF MaxPayload
  <2> QED BY <2>1, <2>2 DEF ByClient
<1> QED
  BY <1>1, <1>2, <1>3, TypesOfClients DEF encode, Decode, assertChannelId

(* What the server makes of it is complete. *)
LEMMA BroadcastComplete ==
    ASSUME NEW m, NEW from, m.type \in PayloadTypes
    PROVE  Broadcast(m, from).type \in RelayedTypes /\ Complete(Broadcast(m, from))
<1>1. /\ Broadcast(m, from).type = Relayed(m.type)
      /\ DOMAIN Broadcast(m, from) = {"type", "channelId", "payload", "from"}
  BY DEF Broadcast
<1> QED
  BY <1>1, FieldsOfTypes DEF Complete

LEMMA SealedIsWritten ==
    ASSUME NEW t \in PayloadTypes, NEW n \in Nat, NEW m,
           m = [type |-> t, channelId |-> "id", payload |-> Sealed(n)]
    PROVE  /\ ByClient(m)
           /\ n <= MAX_INNER_UTF8 => encode(m)
<1>1. /\ m.type = t /\ m.channelId = "id" /\ m.payload = Sealed(n)
      /\ DOMAIN m = {"type", "channelId", "payload"}
  OBVIOUS
<1>2. /\ m.payload.units = EnvelopeLength(n) /\ m.payload.runes = EnvelopeLength(n)
      /\ EnvelopeLength(n) \in Nat
  BY <1>1, BudgetFits DEF Sealed
<1>3. t \in CLIENT_TYPES /\ t \notin {"joined", "online_count", "error"}
      /\ Fields(t) = {"channelId", "payload"}
  BY FieldsOfTypes DEF CLIENT_TYPES, PayloadTypes
<1>4. ByClient(m)
  BY <1>1, <1>2, <1>3 DEF ByClient
<1>5. ASSUME n <= MAX_INNER_UTF8 PROVE encode(m)
  <2>1. assertPayload(m.payload)
    BY <1>2, <1>5, BudgetFits DEF assertPayload
  <2> QED BY <1>1, <1>3, <2>1 DEF encode, assertChannelId
<1> QED
  BY <1>4, <1>5

LEMMA FrameInit == FormatsInit => FrameInv
<1>1. ASSUME frame \in ClientFrames, place = "client", inner = -1 PROVE FrameInv
  <2>1. ByClient(frame)
    <3>1. CASE frame = [type |-> "create_channel"]
      BY <3>1 DEF ByClient, CLIENT_TYPES
    <3>2. CASE frame \in [type : {"join_channel", "leave_channel"}, channelId : {"id", "malformed"}]
      BY <3>2 DEF ByClient, CLIENT_TYPES
    <3>3. CASE frame \in [type : CLIENT_TYPES \ {"create_channel"}]
      BY <3>3 DEF ByClient
    <3>4. CASE frame \in [type : PayloadTypes, channelId : {"id", "malformed"}]
      BY <3>4 DEF ByClient, CLIENT_TYPES
    <3>5. CASE frame \in [type : PayloadTypes, channelId : {"id", "malformed"}, payload : RealPayloads]
      <4>1. frame.type \in PayloadTypes /\ frame.payload \in RealPayloads
        BY <3>5
      <4>2. frame.payload.runes \in Nat /\ frame.payload.units \in Nat
            /\ frame.payload.runes <= frame.payload.units
        BY <4>1, LengthsAssumption DEF RealPayloads, Payloads
      <4> QED BY <4>1, <4>2 DEF ByClient, CLIENT_TYPES
    <3> QED BY <1>1, <3>1, <3>2, <3>3, <3>4, <3>5 DEF ClientFrames
  <2> QED BY <1>1, <2>1 DEF FrameInv
<1>2. ASSUME NEW t \in PayloadTypes, NEW n \in Texts, place = "client", inner = n,
             frame = [type |-> t, channelId |-> "id", payload |-> Sealed(n)]
      PROVE  FrameInv
  <2>1. n \in Nat
    BY LengthsAssumption
  <2>2. ByClient(frame)
    BY <1>2, <2>1, SealedIsWritten
  <2> QED BY <1>2, <2>1, <2>2 DEF FrameInv
<1>3. ASSUME place = "handled", inner = -1 PROVE FrameInv
  BY <1>3 DEF FrameInv
<1> QED
  BY <1>1, <1>2, <1>3 DEF FormatsInit, Init

LEMMA InnerLengths ==
    ASSUME inner \in Nat \cup {-1}
    PROVE  /\ inner \in Int
           /\ inner # -1 <=> inner \in Nat
           /\ inner >= 0 <=> inner \in Nat
           /\ inner > MAX_INNER_UTF8 => inner \in Nat
           /\ inner > MAX_INNER_UTF8 <=> ~(inner <= MAX_INNER_UTF8)
<1>1. MAX_INNER_UTF8 = 6098
  BY DEF MAX_INNER_UTF8
<1>2. CASE inner = -1
  BY <1>1, <1>2
<1>3. CASE inner \in Nat
  BY <1>1, <1>3
<1> QED
  BY <1>2, <1>3

LEMMA FrameNext == FrameInv /\ [FormatsNext]_<<format, vars, left, right>> => FrameInv'
<1> SUFFICES ASSUME FrameInv, Write \/ Relay \/ Read \/ UNCHANGED vars PROVE FrameInv'
  BY DEF FormatsNext, Next
<1>1. CASE UNCHANGED vars
  BY <1>1 DEF vars, FrameInv
<1>2. CASE Write
  <2>1. place = "client" /\ frame' = frame /\ inner' = inner /\ ByClient(frame)
    BY <1>2 DEF Write, FrameInv
  <2>2. CASE inner > MAX_INNER_UTF8
    <3>1. place' = "refused by budget"
      BY <1>2, <2>2 DEF Write
    <3>2. inner \in Nat
      BY <2>2, InnerLengths DEF FrameInv
    <3>3. EnvelopeLength(inner) > MaxPayload
      BY <2>2, <3>2, BudgetFits DEF MAX_INNER_UTF8, MaxPayload
    <3> QED BY <2>1, <3>1, <3>3 DEF FrameInv
  <2>3. CASE ~(inner > MAX_INNER_UTF8) /\ encode(frame)
    <3>1. place' = "wire"
      BY <1>2, <2>3 DEF Write
    <3> QED BY <2>1, <2>3, <3>1 DEF FrameInv
  <2>4. CASE ~(inner > MAX_INNER_UTF8) /\ ~encode(frame)
    <3>1. place' = "refused by encode"
      BY <1>2, <2>4 DEF Write
    <3>2. inner = -1
      <4> SUFFICES ASSUME inner # -1 PROVE FALSE
        OBVIOUS
      <4>1. inner \in Nat /\ inner <= MAX_INNER_UTF8
        BY <2>4, InnerLengths DEF FrameInv
      <4> QED BY <2>1, <2>4, <4>1, SealedIsWritten DEF FrameInv
    <3> QED BY <2>1, <3>1, <3>2 DEF FrameInv
  <2> QED BY <2>2, <2>3, <2>4
<1>3. CASE Relay
  <2>1. place = "wire" /\ ByClient(frame) /\ encode(frame) /\ inner' = inner
    BY <1>3 DEF Relay, FrameInv
  <2>2. Decode(frame)
    BY <2>1, WrittenIsAccepted
  <2>3. CASE frame.type \in PayloadTypes
    <3>1. frame' = Broadcast(frame, "peer") /\ place' = "relayed"
      BY <1>3, <2>2, <2>3 DEF Relay
    <3>2. frame'.type \in RelayedTypes /\ Complete(frame')
      BY <2>3, <3>1, BroadcastComplete
    <3> QED BY <2>1, <3>1, <3>2 DEF FrameInv, Complete
  <2>4. CASE frame.type \notin PayloadTypes
    <3>1. place' = "handled"
      BY <1>3, <2>2, <2>4 DEF Relay
    <3> QED BY <2>1, <3>1 DEF FrameInv
  <2> QED BY <2>3, <2>4
<1>4. CASE Read
  <2>1. place = "relayed" /\ inner' = inner /\ frame.type \in RelayedTypes /\ Complete(frame)
    BY <1>4 DEF Read, FrameInv
  <2>2. decode(frame)
    BY <2>1 DEF decode, RelayedTypes, SERVER_TYPES, CLIENT_TYPES, PayloadTypes
  <2>3. place' = "read"
    BY <1>4, <2>2 DEF Read
  <2> QED BY <2>1, <2>3 DEF FrameInv
<1> QED
  BY <1>1, <1>2, <1>3, <1>4

LEMMA FrameAlways == FormatsSpec => []FrameInv
  BY FrameInit, FrameNext, PTL DEF FormatsSpec

(* Whatever the lengths of its payload, a frame that one client's codec    *)
(* lets out passes the server's and the other client's (codec.ts; the      *)
(* server's gen.go).                                                       *)
THEOREM WrittenFramesAreRead == FormatsSpec => []EncodedIsRead
<1>1. FrameInv => EncodedIsRead
  BY DEF FrameInv, EncodedIsRead
<1> QED
  BY <1>1, FrameAlways, PTL

(* The budget of 6098 bytes is the greatest one that encode never belies   *)
(* (codec.ts, MAX_INNER_UTF8).                                             *)
THEOREM BudgetIsExact == FormatsSpec => []BudgetExact
<1>1. FrameInv => BudgetExact
  BY InnerLengths DEF FrameInv, BudgetExact
<1> QED
  BY <1>1, FrameAlways, PTL

-----------------------------------------------------------------------------
(* Signed strings *)

Symbols == Chars \cup Digits \cup {"|", ":", "msg", "nick"}

Strings == Seq(Symbols)

Fits(field) == field \in Seq(Chars) /\ Len(field) <= MaxLength

ClaimOK(claim) ==
    /\ claim \in [kind : {"msg", "nick"}, nick : Seq(Chars), text : Seq(Chars)]
    /\ Fits(claim.nick) /\ Fits(claim.text)
    /\ claim.kind = "nick" => claim.text = <<>>

ClaimsInv == ClaimOK(left) /\ ClaimOK(right)

LEMMA SmallStrings ==
    /\ <<":">> \in Strings /\ <<"|">> \in Strings /\ <<>> \in Strings
    /\ <<"msg", "|">> \in Strings /\ <<"nick", "|">> \in Strings
<1>1. \A s \in Symbols : <<s>> \in Strings
  BY DEF Strings
<1>2. \A s, t \in Symbols : <<s, t>> \in Strings
  BY DEF Strings
<1>3. ":" \in Symbols /\ "|" \in Symbols /\ "msg" \in Symbols /\ "nick" \in Symbols
  BY DEF Symbols
<1>4. <<>> \in Strings
  BY DEF Strings
<1> QED
  BY <1>1, <1>2, <1>3, <1>4

LEMMA FieldsAreStrings ==
    ASSUME NEW a, Fits(a)
    PROVE  a \in Strings /\ Len(a) \in 0..MaxLength /\ Numeral[Len(a)] \in Strings
<1>1. Chars \subseteq Symbols /\ Digits \subseteq Symbols
  BY DEF Symbols
<1>2. a \in Strings
  BY <1>1 DEF Fits, Strings
<1>3. Len(a) \in 0..MaxLength
  BY FramingAssumption, LenProperties DEF Fits
<1>4. Numeral[Len(a)] \in Seq(Digits)
  BY <1>3, FramingAssumption
<1>5. Numeral[Len(a)] \in Strings
  BY <1>1, <1>4 DEF Strings
<1> QED
  BY <1>2, <1>3, <1>5

(* The elements of a concatenation *)
LEMMA Joined ==
    ASSUME NEW p \in Strings, NEW u \in Strings
    PROVE  /\ p \o u \in Strings /\ Len(p) \in Nat /\ Len(u) \in Nat /\ Len(p \o u) = Len(p) + Len(u)
           /\ \A i \in 1..Len(p) : (p \o u)[i] = p[i]
           /\ \A i \in 1..Len(u) : (p \o u)[Len(p) + i] = u[i]
<1>1. Len(p) \in Nat /\ Len(u) \in Nat
  BY LenProperties DEF Strings
<1>2. PICK w : w = p \o u
  OBVIOUS
<1>3. /\ w \in Strings /\ Len(w) = Len(p) + Len(u)
      /\ \A i \in 1..(Len(p) + Len(u)) : w[i] = IF i <= Len(p) THEN p[i] ELSE u[i - Len(p)]
  BY <1>2, ConcatProperties DEF Strings
<1>4. ASSUME NEW i \in 1..Len(p) PROVE w[i] = p[i]
  <2>1. i \in 1..(Len(p) + Len(u)) /\ i <= Len(p)
    BY <1>1
  <2> QED BY <1>3, <2>1
<1>5. ASSUME NEW i \in 1..Len(u) PROVE w[Len(p) + i] = u[i]
  <2>1. PICK j : j = Len(p) + i
    OBVIOUS
  <2>2. j \in 1..(Len(p) + Len(u)) /\ ~(j <= Len(p)) /\ j - Len(p) = i
    BY <1>1, <2>1
  <2>3. w[j] = u[i]
    BY <1>3, <2>2
  <2> QED BY <2>1, <2>3
<1> QED
  BY <1>1, <1>2, <1>3, <1>4, <1>5

LEMMA Cancel ==
    ASSUME NEW p \in Strings, NEW t \in Strings, NEW v \in Strings, p \o t = p \o v
    PROVE  t = v
  BY ConcatSimplifications DEF Strings

JoinedLeft(p, t, v) == (p \o t) \o v

JoinedRight(p, t, v) == p \o (t \o v)

LEMMA Regroup ==
    ASSUME NEW p \in Strings, NEW t \in Strings, NEW v \in Strings
    PROVE  JoinedLeft(p, t, v) = JoinedRight(p, t, v)
  BY ConcatAssociative DEF Strings, JoinedLeft, JoinedRight

LEMMA SameString ==
    ASSUME NEW s \in Strings, NEW t \in Strings, Len(s) = Len(t), \A i \in 1..Len(s) : s[i] = t[i]
    PROVE  s = t
  BY SeqEqual DEF Strings

NumeralThen(n, u) == Numeral[n] \o (<<":">> \o u)

FrameThen(field, x) == Framing!frame(field) \o x

(* Two numerals that stand before a colon are equal if all is. *)
LEMMA NumeralsEqual ==
    ASSUME NEW m \in 0..MaxLength, NEW n \in 0..MaxLength, NEW u \in Strings, NEW v \in Strings,
           NumeralThen(m, u) = NumeralThen(n, v)
    PROVE  m = n
<1>1. PICK p, q : p = Numeral[m] /\ q = Numeral[n]
  OBVIOUS
<1>2. p \in Seq(Digits) /\ q \in Seq(Digits)
  BY <1>1, FramingAssumption
<1>3. (\A i \in 1..Len(p) : p[i] \in Digits) /\ (\A i \in 1..Len(q) : q[i] \in Digits)
  BY <1>2
<1>4. p \in Strings /\ q \in Strings
  BY <1>2 DEF Strings, Symbols
<1>5. ":" \notin Digits
  BY FramingAssumption DEF Framing!Colon
<1>6. PICK x, y : x = <<":">> \o u /\ y = <<":">> \o v
  OBVIOUS
<1>7. /\ x \in Strings /\ 1 \in 1..Len(x) /\ x[1] = ":"
      /\ y \in Strings /\ 1 \in 1..Len(y) /\ y[1] = ":"
  <2>1. <<":">> \in Strings /\ Len(<<":">>) = 1 /\ <<":">>[1] = ":"
    BY SmallStrings
  <2> QED BY <1>6, <2>1, Joined
<1>8. PICK w : w = p \o x /\ w = q \o y
  BY <1>1, <1>6 DEF NumeralThen
<1>9. /\ Len(p) \in Nat /\ \A i \in 1..Len(p) : w[i] = p[i]
      /\ w[Len(p) + 1] = ":"
  <2>1. /\ Len(p) \in Nat /\ \A i \in 1..Len(p) : (p \o x)[i] = p[i]
        /\ \A i \in 1..Len(x) : (p \o x)[Len(p) + i] = x[i]
    BY <1>4, <1>7, Joined
  <2>2. (p \o x)[Len(p) + 1] = ":"
    BY <1>7, <2>1
  <2> QED BY <1>8, <2>1, <2>2
<1>10. /\ Len(q) \in Nat /\ \A i \in 1..Len(q) : w[i] = q[i]
       /\ w[Len(q) + 1] = ":"
  <2>1. /\ Len(q) \in Nat /\ \A i \in 1..Len(q) : (q \o y)[i] = q[i]
        /\ \A i \in 1..Len(y) : (q \o y)[Len(q) + i] = y[i]
    BY <1>4, <1>7, Joined
  <2>2. (q \o y)[Len(q) + 1] = ":"
    BY <1>7, <2>1
  <2> QED BY <1>8, <2>1, <2>2
<1>11. ~(Len(p) < Len(q))
  <2> SUFFICES ASSUME Len(p) < Len(q) PROVE FALSE
    OBVIOUS
  <2>1. Len(p) + 1 \in 1..Len(q)
    BY <1>9, <1>10
  <2> QED BY <1>3, <1>5, <1>9, <1>10, <2>1
<1>12. ~(Len(q) < Len(p))
  <2> SUFFICES ASSUME Len(q) < Len(p) PROVE FALSE
    OBVIOUS
  <2>1. Len(q) + 1 \in 1..Len(p)
    BY <1>9, <1>10
  <2> QED BY <1>3, <1>5, <1>9, <1>10, <2>1
<1>13. Len(p) = Len(q)
  BY <1>9, <1>10, <1>11, <1>12
<1>14. p = q
  BY <1>4, <1>9, <1>10, <1>13, SameString
<1> QED
  BY <1>1, <1>14, FramingAssumption

LEMMA FrameParts ==
    ASSUME NEW a, Fits(a), NEW x \in Strings
    PROVE  /\ Framing!frame(a) \in Strings
           /\ Framing!frame(a) \o x = Numeral[Len(a)] \o (<<":">> \o (a \o x))
<1>1. PICK p : p = Numeral[Len(a)]
  OBVIOUS
<1>2. a \in Strings /\ p \in Strings /\ <<":">> \in Strings
  BY <1>1, FieldsAreStrings, SmallStrings
<1>3. Framing!frame(a) = p \o <<":">> \o a
  BY <1>1 DEF Framing!frame, Framing!Colon
<1>4. p \o <<":">> \in Strings /\ a \o x \in Strings
  BY <1>2, Joined
<1>5. (p \o <<":">>) \o a \in Strings
  BY <1>2, <1>4, Joined
<1>6. ((p \o <<":">>) \o a) \o x = (p \o <<":">>) \o (a \o x)
  <2>1. PICK r : r = p \o <<":">> /\ r \in Strings
    BY <1>4
  <2>2. JoinedLeft(r, a, x) = JoinedRight(r, a, x)
    BY <1>2, <2>1, Regroup
  <2> QED BY <2>1, <2>2 DEF JoinedLeft, JoinedRight
<1>7. (p \o <<":">>) \o (a \o x) = p \o (<<":">> \o (a \o x))
  <2>1. PICK b, y : b = <<":">> /\ y = a \o x /\ b \in Strings /\ y \in Strings
    BY <1>2, <1>4
  <2>2. JoinedLeft(p, b, y) = JoinedRight(p, b, y)
    BY <1>2, <2>1, Regroup
  <2> QED BY <2>1, <2>2 DEF JoinedLeft, JoinedRight
<1> QED
  BY <1>1, <1>3, <1>5, <1>6, <1>7

(* A framed field tells where it ends. *)
LEMMA FrameTells ==
    ASSUME NEW a, NEW b, Fits(a), Fits(b), NEW x \in Strings, NEW y \in Strings,
           FrameThen(a, x) = FrameThen(b, y)
    PROVE  a = b /\ x = y
<1>1. /\ a \in Strings /\ Len(a) \in 0..MaxLength /\ Numeral[Len(a)] \in Strings
      /\ b \in Strings /\ Len(b) \in 0..MaxLength /\ <<":">> \in Strings
  BY FieldsAreStrings, SmallStrings
<1>2. PICK u, v : u = a \o x /\ v = b \o y
  OBVIOUS
<1>3. u \in Strings /\ v \in Strings
  BY <1>1, <1>2, Joined
<1>4. NumeralThen(Len(a), u) = NumeralThen(Len(b), v)
  BY <1>2, FrameParts DEF NumeralThen, FrameThen
<1>5. Len(a) = Len(b)
  BY <1>1, <1>3, <1>4, NumeralsEqual
<1>6. <<":">> \o u = <<":">> \o v
  <2>1. PICK p : p = Numeral[Len(a)] /\ p \in Strings
    BY <1>1
  <2>2. <<":">> \o u \in Strings /\ <<":">> \o v \in Strings
    BY <1>1, <1>3, Joined
  <2>3. p \o (<<":">> \o u) = p \o (<<":">> \o v)
    BY <1>4, <1>5, <2>1 DEF NumeralThen
  <2> QED BY <2>1, <2>2, <2>3, Cancel
<1>7. u = v
  BY <1>1, <1>3, <1>6, Cancel
<1>8. a = b
  <2>1. \A i \in 1..Len(a) : u[i] = a[i] /\ v[i] = b[i]
    BY <1>1, <1>2, <1>5, Joined
  <2> QED BY <1>1, <1>5, <1>7, <2>1, SameString
<1>9. x = y
  BY <1>1, <1>2, <1>7, <1>8, Cancel
<1> QED
  BY <1>8, <1>9

LEMMA MessageParts ==
    ASSUME NEW c, ClaimOK(c), c.kind = "msg"
    PROVE  /\ Framing!SigData(c) =
                 <<"msg", "|">> \o (Framing!frame(c.nick) \o (<<"|">> \o Framing!frame(c.text)))
           /\ Framing!frame(c.nick) \in Strings /\ Framing!frame(c.text) \in Strings
<1>1. PICK n, t : n = Framing!frame(c.nick) /\ t = Framing!frame(c.text)
  OBVIOUS
<1>2. /\ n \in Strings /\ t \in Strings /\ <<"msg", "|">> \in Strings /\ <<"|">> \in Strings
  BY <1>1, FrameParts, SmallStrings DEF ClaimOK
<1>3. Framing!SigData(c) = ((<<"msg", "|">> \o n) \o <<"|">>) \o t
  BY <1>1 DEF Framing!SigData, Framing!messageSigData, Framing!Bar
<1>4. PICK m, b : m = <<"msg", "|">> /\ b = <<"|">> /\ m \in Strings /\ b \in Strings
  BY <1>2
<1>5. PICK r : r = m \o n /\ r \in Strings
  BY <1>2, <1>4, Joined
<1>6. (r \o b) \o t = r \o (b \o t)
  <2>1. JoinedLeft(r, b, t) = JoinedRight(r, b, t)
    BY <1>2, <1>4, <1>5, Regroup
  <2> QED BY <2>1 DEF JoinedLeft, JoinedRight
<1>7. (m \o n) \o (b \o t) = m \o (n \o (b \o t))
  <2>1. PICK y : y = b \o t /\ y \in Strings
    BY <1>2, <1>4, Joined
  <2>2. JoinedLeft(m, n, y) = JoinedRight(m, n, y)
    BY <1>2, <1>4, <2>1, Regroup
  <2> QED BY <2>1, <2>2 DEF JoinedLeft, JoinedRight
<1> QED
  BY <1>1, <1>2, <1>3, <1>4, <1>5, <1>6, <1>7

LEMMA NickParts ==
    ASSUME NEW c, ClaimOK(c), c.kind = "nick"
    PROVE  /\ Framing!SigData(c) = <<"nick", "|">> \o Framing!frame(c.nick)
           /\ Framing!frame(c.nick) \in Strings
<1>1. Framing!SigData(c) = <<"nick", "|">> \o Framing!frame(c.nick)
  BY DEF Framing!SigData, Framing!nickSigData, Framing!Bar
<1> QED
  BY <1>1, FrameParts, SmallStrings DEF ClaimOK

(* The string tells the kind. *)
LEMMA KindTold ==
    ASSUME NEW c, ClaimOK(c)
    PROVE  Framing!SigData(c)[1] = c.kind
<1>1. ASSUME NEW k \in {"msg", "nick"}, NEW x \in Strings PROVE (<<k, "|">> \o x)[1] = k
  <2>1. PICK p : p = <<k, "|">> /\ p \in Strings /\ 1 \in 1..Len(p) /\ p[1] = k
    BY SmallStrings
  <2>2. (p \o x)[1] = p[1]
    BY <2>1, Joined
  <2> QED BY <2>1, <2>2
<1>2. CASE c.kind = "msg"
  <2>1. PICK x \in Strings : Framing!SigData(c) = <<"msg", "|">> \o x
    <3>1. <<"|">> \o Framing!frame(c.text) \in Strings
      BY <1>2, MessageParts, SmallStrings, Joined
    <3>2. Framing!frame(c.nick) \o (<<"|">> \o Framing!frame(c.text)) \in Strings
      BY <1>2, <3>1, MessageParts, Joined
    <3> QED BY <1>2, <3>2, MessageParts
  <2> QED BY <1>1, <1>2, <2>1
<1>3. CASE c.kind = "nick"
  BY <1>1, <1>3, NickParts
<1> QED
  BY <1>2, <1>3 DEF ClaimOK

LEMMA ClaimsTold ==
    ASSUME NEW c, NEW d, ClaimOK(c), ClaimOK(d), Framing!SigData(c) = Framing!SigData(d)
    PROVE  c = d
<1>1. c.kind = d.kind
  BY KindTold
<1>2. /\ c = [kind |-> c.kind, nick |-> c.nick, text |-> c.text]
      /\ d = [kind |-> d.kind, nick |-> d.nick, text |-> d.text]
  BY DEF ClaimOK
<1>3. /\ <<"msg", "|">> \in Strings /\ <<"nick", "|">> \in Strings /\ <<"|">> \in Strings
      /\ <<>> \in Strings
  BY SmallStrings
<1>4. CASE c.kind = "msg"
  <2>1. PICK a, b : a = Framing!frame(c.text) /\ b = Framing!frame(d.text)
    OBVIOUS
  <2>2. PICK x, y : x = <<"|">> \o a /\ y = <<"|">> \o b
    OBVIOUS
  <2>3. PICK n, m : n = Framing!frame(c.nick) /\ m = Framing!frame(d.nick)
    OBVIOUS
  <2>4. a \in Strings /\ b \in Strings /\ n \in Strings /\ m \in Strings
    BY <1>1, <1>4, <2>1, <2>3, MessageParts
  <2>5. x \in Strings /\ y \in Strings
    BY <1>3, <2>2, <2>4, Joined
  <2>6. n \o x \in Strings /\ m \o y \in Strings
    BY <2>4, <2>5, Joined
  <2>7. <<"msg", "|">> \o (n \o x) = <<"msg", "|">> \o (m \o y)
    BY <1>1, <1>4, <2>1, <2>2, <2>3, MessageParts
  <2>8. n \o x = m \o y
    BY <1>3, <2>6, <2>7, Cancel
  <2>9. c.nick = d.nick /\ x = y
    <3>1. Fits(c.nick) /\ Fits(d.nick)
      BY DEF ClaimOK
    <3>2. FrameThen(c.nick, x) = FrameThen(d.nick, y)
      BY <2>3, <2>8 DEF FrameThen
    <3> QED BY <2>5, <3>1, <3>2, FrameTells
  <2>10. a = b
    BY <1>3, <2>2, <2>4, <2>9, Cancel
  <2>11. a \o <<>> = b \o <<>>
    BY <2>10
  <2>12. c.text = d.text
    <3>1. Fits(c.text) /\ Fits(d.text)
      BY DEF ClaimOK
    <3>2. FrameThen(c.text, <<>>) = FrameThen(d.text, <<>>)
      BY <2>1, <2>11 DEF FrameThen
    <3> QED BY <1>3, <3>1, <3>2, FrameTells
  <2> QED BY <1>1, <1>2, <2>9, <2>12
<1>5. CASE c.kind = "nick"
  <2>1. PICK n, m : n = Framing!frame(c.nick) /\ m = Framing!frame(d.nick)
    OBVIOUS
  <2>2. n \in Strings /\ m \in Strings
    BY <1>1, <1>5, <2>1, NickParts
  <2>3. <<"nick", "|">> \o n = <<"nick", "|">> \o m
    BY <1>1, <1>5, <2>1, NickParts
  <2>4. n = m
    BY <1>3, <2>2, <2>3, Cancel
  <2>5. n \o <<>> = m \o <<>>
    BY <2>4
  <2>6. c.nick = d.nick
    <3>1. Fits(c.nick) /\ Fits(d.nick)
      BY DEF ClaimOK
    <3>2. FrameThen(c.nick, <<>>) = FrameThen(d.nick, <<>>)
      BY <2>1, <2>5 DEF FrameThen
    <3> QED BY <1>3, <3>1, <3>2, FrameTells
  <2>7. c.text = d.text
    BY <1>1, <1>5 DEF ClaimOK
  <2> QED BY <1>1, <1>2, <2>6, <2>7
<1> QED
  BY <1>4, <1>5 DEF ClaimOK

LEMMA ClaimsInit == FormatsInit => ClaimsInv
<1>1. Fits(<<>>)
  BY FramingAssumption DEF Fits
<1>2. \A k \in {"msg", "nick"} : ClaimOK([kind |-> k, nick |-> <<>>, text |-> <<>>])
  BY <1>1 DEF ClaimOK
<1>3. /\ ClaimOK(Framing!Empty)
      /\ ClaimOK([Framing!Empty EXCEPT !.kind = "nick"])
  BY <1>2 DEF Framing!Empty
<1> QED
  BY <1>3 DEF FormatsInit, Framing!Init, ClaimsInv

LEMMA MoreIsClaim == ASSUME NEW c, ClaimOK(c), NEW d \in Framing!MoreOf(c) PROVE ClaimOK(d)
<1>1. ASSUME NEW f \in Seq(Chars), NEW ch \in Chars, Len(f) < MaxLength
      PROVE  Append(f, ch) \in Seq(Chars) /\ Fits(Append(f, ch))
  <2>1. Append(f, ch) \in Seq(Chars) /\ Len(Append(f, ch)) = Len(f) + 1
    BY AppendProperties
  <2>2. Len(f) \in Nat
    BY LenProperties
  <2> QED BY <1>1, <2>1, <2>2, FramingAssumption DEF Fits
<1>2. CASE d \in Framing!Typed(c, "nick")
  <2>1. PICK ch \in Chars : Len(c.nick) < MaxLength /\ d = [c EXCEPT !.nick = Append(c.nick, ch)]
    BY <1>2 DEF Framing!Typed
  <2>2. Append(c.nick, ch) \in Seq(Chars) /\ Fits(Append(c.nick, ch))
    BY <1>1, <2>1 DEF ClaimOK
  <2> QED BY <2>1, <2>2 DEF ClaimOK
<1>3. CASE d \in Framing!Typed(c, "text") /\ c.kind = "msg"
  <2>1. PICK ch \in Chars : Len(c.text) < MaxLength /\ d = [c EXCEPT !.text = Append(c.text, ch)]
    BY <1>3 DEF Framing!Typed
  <2>2. Append(c.text, ch) \in Seq(Chars) /\ Fits(Append(c.text, ch))
    BY <1>1, <2>1 DEF ClaimOK
  <2> QED BY <1>3, <2>1, <2>2 DEF ClaimOK
<1> QED
  BY <1>2, <1>3 DEF Framing!MoreOf

LEMMA ClaimsNext == ClaimsInv /\ [FormatsNext]_<<format, vars, left, right>> => ClaimsInv'
<1> SUFFICES ASSUME ClaimsInv, Framing!Next \/ UNCHANGED <<left, right>> PROVE ClaimsInv'
  BY DEF FormatsNext
<1>1. CASE UNCHANGED <<left, right>>
  BY <1>1 DEF ClaimsInv, ClaimOK, Fits
<1>2. CASE Framing!Next
  <2>1. ClaimOK(left') /\ ClaimOK(right')
    BY <1>2, MoreIsClaim DEF Framing!Next, ClaimsInv
  <2> QED BY <2>1 DEF ClaimsInv, ClaimOK, Fits
<1> QED
  BY <1>1, <1>2

(* Of whatever bytes nicks and texts consist and however long they are, a  *)
(* signed string belongs to one claim only (identity.ts, frame).           *)
THEOREM SignaturesBind == FormatsSpec => []SignatureBindsClaim
<1>1. ClaimsInv => SignatureBindsClaim
  BY ClaimsTold DEF ClaimsInv, SignatureBindsClaim, Framing!SignatureBindsClaim
<1> QED
  BY <1>1, ClaimsInit, ClaimsNext, PTL DEF FormatsSpec

===============================================================================
