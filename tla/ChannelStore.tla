---------------------------- MODULE ChannelStore ----------------------------
(***************************************************************************)
(* frontend/src/channel.svelte.ts: what a room's store does with the       *)
(* frames it receives.  The handler is an async function: every frame      *)
(* starts a run of it, which stops at each await of Web Crypto and goes on *)
(* when the result is there, in any order, with other runs and the App's   *)
(* calls in between.  A pending run is a record of tasks.                  *)
(*                                                                         *)
(* AES-GCM is ideal: an envelope decrypts under the key it was made with   *)
(* and no other.  The error banner is left out, except for the warning     *)
(* about two identities on one connection.  Connection and join are in     *)
(* RoomConnection, the online count in Announcements.                      *)
(***************************************************************************)
EXTENDS ReplayCache, InnerPayload, SequencesExt

CONSTANTS
    ChannelId,
    Keys,           \* room keys
    FirstKey,       \* the key the store was made with
    Frames,         \* the frames that may arrive, each any number of times
    MaxDeliveries,  \* bound on the frames that arrive
    MaxEpochs       \* bound on the times the App changes the key

ASSUME StoreAssumption ==
    /\ FirstKey \in Keys
    /\ \A f \in Frames :
          /\ f.plain.k \in Keys \cup {None}
          /\ f.plain.pk # NoPk => fpOf(f.plain.pk) # None
          /\ ~f.plain.json => f.plain.t = None   \* raw text has no tag
    /\ MaxDeliveries \in Nat
    /\ MaxEpochs \in Nat

VARIABLES
    crypto,         \* this.crypto, as the key it was made of
    replayCache,
    messages,       \* the timeline
    nickToFp,       \* pins: a nick and the fingerprint that first claimed it
    fpByConn,       \* the fingerprint last verified on a connection
    conflictWarned, \* announced pairs of nick and fingerprint
    mismatched,     \* connections warned about for presenting two fingerprints
    roomName,       \* lastRoomName, as handed to onRoomNameUpdated
    peerNicks,      \* the nicks handed to onNicknameUpdated, by connection
    tasks,          \* pending runs of the handler, oldest first
    delivered,      \* frames delivered so far
    epoch,          \* how often the cache has been cleared
    adds,           \* how often an id was put into the cache
    shown           \* how many entries the timeline has ever had

identVars == <<nickToFp, fpByConn, conflictWarned, mismatched>>
nameVars == <<roomName, peerNicks>>
ghostVars == <<epoch, adds, shown>>
vars == <<crypto, replayCache, messages, identVars, nameVars, tasks, delivered, ghostVars>>

(* Maps without an entry for a key give None. *)
Lookup(f, x) == IF x \in DOMAIN f THEN f[x] ELSE None

With(f, x, y) == [z \in DOMAIN f \cup {x} |-> IF z = x THEN y ELSE f[z]]

Statuses == {"unsigned", "verified", "conflict", "invalid", "system"}

TypeOK ==
    /\ crypto \in Keys
    /\ CacheOK(replayCache)
    /\ \A i \in 1..Len(messages) : messages[i].status \in Statuses
    /\ \A i \in 1..Len(tasks) :
          /\ tasks[i].f \in Frames /\ tasks[i].f.envelope
          /\ tasks[i].stage \in {"decrypt", "verify", "import"}
    /\ delivered \in 0..MaxDeliveries
    /\ Len(tasks) <= delivered

Init ==
    /\ crypto = FirstKey
    /\ replayCache = EmptyCache
    /\ messages = <<>>
    /\ nickToFp = <<>> /\ fpByConn = <<>>
    /\ conflictWarned = {} /\ mismatched = {}
    /\ roomName = None /\ peerNicks = <<>>
    /\ tasks = <<>>
    /\ delivered = 0
    /\ epoch = 0 /\ adds = 0 /\ shown = 0

-----------------------------------------------------------------------------
(* Parts of the handler *)

(* An entry of the timeline.  task is the run that appends it. *)
Entry(task, text, status, nick, fp) ==
    [text |-> text, mid |-> task.f.mid, from |-> task.f.from, status |-> status,
     nick |-> nick, fp |-> fp, epoch |-> task.epoch,
     startedAt |-> task.shown, startedAfter |-> task.adds, place |-> shown + 1,
     addedAs |-> IF CacheHas(replayCache, task.f.mid) THEN 0 ELSE adds + 1]

ShowAll(es) ==
    /\ messages' = messages \o es
    /\ shown' = shown + Len(es)

Show(e) == ShowAll(<<e>>)

ShowNothing == UNCHANGED <<messages, shown>>

RememberUnlessFull(mid) ==
    /\ IF Len(replayCache.queue) < CacheMax
       THEN replayCache' = CacheAdd(replayCache, mid) /\ adds' = adds + 1
       ELSE UNCHANGED <<replayCache, adds>>
    /\ UNCHANGED epoch

(* replayCache.add(mid) *)
Remember(mid) ==
    /\ replayCache' = CacheAdd(replayCache, mid)
    /\ adds' = IF CacheHas(replayCache, mid) THEN adds ELSE adds + 1
    /\ UNCHANGED epoch

RememberNothing == UNCHANGED <<replayCache, adds, epoch>>

EndTask(i) == tasks' = RemoveAt(tasks, i)

Await(i, stage) == tasks' = [tasks EXCEPT ![i].stage = stage]

(* recordIdentity: the first identity to claim a nick owns it, as far as   *)
(* fingerprints tell identities apart.                                     *)
StatusOf(nick, fp) == IF Lookup(nickToFp, nick) \in {None, fp} THEN "verified" ELSE "conflict"

PinLatest(nick, fp) == nickToFp' = With(nickToFp, nick, fp)

Pin(nick, fp) ==
    nickToFp' = IF nick \in DOMAIN nickToFp THEN nickToFp ELSE With(nickToFp, nick, fp)

-----------------------------------------------------------------------------
(* A frame arrives: the handler runs up to its first await. *)

OwnKeyUpdate(f) == f.kind = "key_updated" /\ f.self

IsReplay(f) == CacheHas(replayCache, f.mid)

Task(f) == [f |-> f, stage |-> "decrypt", key |-> crypto,
            epoch |-> epoch, shown |-> shown, adds |-> adds]

(* The frames that end the handler at once: the rotator's own echo, an     *)
(* envelope that is malformed, an id that is in the cache.                 *)
Dropped(f) == OwnKeyUpdate(f) \/ ~f.envelope \/ IsReplay(f)

Deliver(f) ==
    /\ delivered < MaxDeliveries
    /\ delivered' = delivered + 1
    /\ IF f.kind = "message" /\ ~f.envelope
       THEN Show(Entry(Task(f), "invalid envelope", "unsigned", None, None))
       ELSE ShowNothing
    /\ tasks' = IF Dropped(f) THEN tasks ELSE Append(tasks, Task(f))
    /\ RememberNothing
    /\ UNCHANGED <<crypto, identVars, nameVars>>

-----------------------------------------------------------------------------
(* Decryption returns.  It was started with the key of that moment. *)

Decrypts(t) == t.key = t.f.key

Waiting(i, kind, stage) == tasks[i].f.kind = kind /\ tasks[i].stage = stage

(* A message that needs no signature check is shown. *)
DecryptMessage(i) ==
    LET t == tasks[i]
        p == t.f.plain
        class == IF Decrypts(t) THEN MessageClass(p) ELSE "failed"
    IN  /\ Waiting(i, "message", "decrypt")
        /\ \/ /\ class = "signed"
              /\ Await(i, "verify")
              /\ RememberNothing /\ ShowNothing
           \/ /\ class # "signed"
              /\ EndTask(i)
              /\ Remember(t.f.mid)
              /\ CASE class = "stale" -> Show(Entry(t, "stale signature", "invalid", None, fpOf(p.pk)))
                   [] class = "raw" -> Show(Entry(t, AsItStands(p), "unsigned", None, None))
                   [] class = "failed" -> Show(Entry(t, "decrypt failed", "unsigned", None, None))
                   [] class = "ignored" -> ShowNothing
        /\ UNCHANGED <<crypto, identVars, nameVars, delivered>>

DecryptKeyUpdate(i) ==
    /\ Waiting(i, "key_updated", "decrypt")
    /\ IF Decrypts(tasks[i]) /\ unwrapNewKey(tasks[i].f.plain)
       THEN Await(i, "import")
       ELSE EndTask(i)
    /\ UNCHANGED <<crypto, replayCache, messages, identVars, nameVars, delivered, ghostVars>>

(* The name is applied; a name that is not new, or is only announced       *)
(* again, gets no entry.                                                   *)
DecryptRoomName(i) ==
    LET t == tasks[i]
        p == t.f.plain
    IN  /\ Waiting(i, "room_name_updated", "decrypt")
        /\ EndTask(i)
        /\ IF Decrypts(t) /\ unwrapRoomName(p)
           THEN /\ Remember(t.f.mid)
                /\ roomName' = p.name
                /\ IF roomName = p.name \/ p.initial
                   THEN ShowNothing
                   ELSE Show(Entry(t, "room name", "system", None, None))
           ELSE UNCHANGED roomName /\ RememberNothing /\ ShowNothing
        /\ UNCHANGED <<crypto, identVars, peerNicks, delivered>>

SetNick(f) == peerNicks' = With(peerNicks, f.from, f.plain.nick)

(* The id is remembered before the signature is checked. *)
DecryptNick(i) ==
    LET t == tasks[i]
        p == t.f.plain
    IN  /\ Waiting(i, "nickname_updated", "decrypt")
        /\ \/ /\ Decrypts(t) /\ unwrapNick(p)
              /\ Remember(t.f.mid)
              /\ IF NickIsSigned(p)
                 THEN Await(i, "verify") /\ UNCHANGED peerNicks
                 ELSE EndTask(i) /\ SetNick(t.f)
           \/ /\ ~(Decrypts(t) /\ unwrapNick(p))
              /\ EndTask(i) /\ RememberNothing /\ UNCHANGED peerNicks
        /\ ShowNothing
        /\ UNCHANGED <<crypto, identVars, roomName, delivered>>

-----------------------------------------------------------------------------
(* The second await returns. *)

ReplaceConnection(from, fp) ==
    fpByConn' = With(fpByConn, from, fp) /\ UNCHANGED mismatched

(* fpByConn keeps the first print of a connection; another one raises      *)
(* the warning and does not replace it.                                    *)
NoteConnection(from, fp) ==
    IF Lookup(fpByConn, from) \in {None, fp}
    THEN fpByConn' = With(fpByConn, from, fp) /\ UNCHANGED mismatched
    ELSE mismatched' = mismatched \cup {from} /\ UNCHANGED fpByConn

Announced(nick, fp) == <<nick, fp>> \in conflictWarned

VerifyMessage(i) ==
    LET t == tasks[i]
        p == t.f.plain
        valid == verifyIdentity(p.pk, p.sig, messageSigData(ChannelId, t.f.mid, p.nick, p.text))
        fp == fpOf(p.pk)
        status == StatusOf(p.nick, fp)
        entry == Entry(t, p.text, status, p.nick, fp)
    IN  /\ Waiting(i, "message", "verify")
        /\ EndTask(i)
        /\ Remember(t.f.mid)
        /\ \/ /\ valid
              /\ Pin(p.nick, fp)
              /\ NoteConnection(t.f.from, fp)
              /\ IF status = "conflict" /\ ~Announced(p.nick, fp)
                 THEN /\ conflictWarned' = conflictWarned \cup {<<p.nick, fp>>}
                      /\ ShowAll(<<entry, [entry EXCEPT !.text = "identity conflict",
                                                        !.status = "system"]>>)
                 ELSE Show(entry) /\ UNCHANGED conflictWarned
           \/ /\ ~valid
              /\ Show(Entry(t, "invalid signature", "invalid", p.nick, fp))
              /\ UNCHANGED identVars
        /\ UNCHANGED <<crypto, nameVars, delivered>>

VerifyNick(i) ==
    LET t == tasks[i]
        p == t.f.plain
        valid == verifyIdentity(p.pk, p.sig, nickSigData(ChannelId, p.nick))
    IN  /\ Waiting(i, "nickname_updated", "verify")
        /\ EndTask(i)
        /\ IF valid
           THEN Pin(p.nick, fpOf(p.pk)) /\ SetNick(t.f)
           ELSE UNCHANGED <<nickToFp, peerNicks>>
        /\ UNCHANGED <<crypto, replayCache, messages, fpByConn, conflictWarned,
                       mismatched, roomName, delivered, ghostVars>>

(* From the imported key on, everything is one synchronous step. *)
SwapKey(k, mid) ==
    /\ crypto' = k
    /\ replayCache' = CacheAdd(EmptyCache, mid)
    /\ adds' = adds + 1
    /\ epoch' = epoch + 1

ImportNewKey(i) ==
    LET t == tasks[i]
    IN  /\ Waiting(i, "key_updated", "import")
        /\ EndTask(i)
        /\ SwapKey(t.f.plain.k, t.f.mid)
        /\ Show(Entry(t, "key rotation", "system", None, None))
        /\ UNCHANGED <<identVars, nameVars, delivered>>

-----------------------------------------------------------------------------
(* The App changes the key: its own rotation, a pasted key. *)
UpdateCrypto(k) ==
    /\ epoch < MaxEpochs
    /\ crypto' = k
    /\ replayCache' = EmptyCache
    /\ epoch' = epoch + 1
    /\ ShowNothing
    /\ UNCHANGED <<identVars, nameVars, tasks, delivered, adds>>

Resume(i) ==
    \/ DecryptMessage(i)
    \/ DecryptKeyUpdate(i)
    \/ DecryptRoomName(i)
    \/ DecryptNick(i)
    \/ VerifyMessage(i)
    \/ VerifyNick(i)
    \/ ImportNewKey(i)

Next ==
    \/ \E f \in Frames : Deliver(f)
    \/ \E i \in 1..Len(tasks) : Resume(i)
    \/ \E k \in Keys : UpdateCrypto(k)

Spec == Init /\ [][Next]_vars

-----------------------------------------------------------------------------
(* Properties *)

Placeholders == {"invalid envelope", "decrypt failed", "invalid signature",
                 "stale signature", "room name", "key rotation", "identity conflict"}

(* The entries that show what a message says. *)
Contents == {i \in 1..Len(messages) : messages[i].text \notin Placeholders}

SameMessage(i, j) == messages[i].mid = messages[j].mid /\ messages[i].epoch = messages[j].epoch

(* Handlers overlapped: the later entry's began before the earlier entry was there. *)
Overlapped(i, j) == messages[j].startedAt < messages[i].place

(* The id was pushed out of the cache before the later handler asked for it. *)
Evicted(i, j) ==
    \A k \in 1..i : messages[k].mid = messages[i].mid =>
        messages[j].startedAfter - messages[k].addedAs >= CacheMax

(* Replay protection: what a message says appears once.  A copy that       *)
(* arrives after the message was shown is dropped, whatever other runs of  *)
(* the handler are under way, unless CacheMax newer ids have displaced its *)
(* id or the key has been changed, which clears the cache.                 *)
ShownOnce ==
    \A i, j \in Contents : i < j /\ SameMessage(i, j) => Overlapped(i, j) \/ Evicted(i, j)

Attributed == {i \in 1..Len(messages) : messages[i].status \in {"verified", "conflict"}}

(* Trust on first use: no two fingerprints are ever shown as the verified  *)
(* owner of one nick, however nick claims and messages interleave.  Of two *)
(* keys with one fingerprint it says nothing: both are shown as verified.  *)
VerifiedNicksUnique ==
    \A i, j \in Attributed :
        /\ messages[i].status = "verified" /\ messages[j].status = "verified"
        /\ messages[i].nick = messages[j].nick
        => messages[i].fp = messages[j].fp

(* In whatever order the checks of several identities finish, a contested  *)
(* nick is announced in the timeline, once per fingerprint, whenever an    *)
(* entry is marked as a conflict, and two fingerprints on one connection   *)
(* always raise the warning.                                               *)
ImpersonationShown ==
    /\ \A i \in Attributed : messages[i].status = "conflict" =>
          Cardinality({j \in 1..Len(messages) :
              /\ messages[j].status = "system" /\ messages[j].text = "identity conflict"
              /\ messages[j].nick = messages[i].nick /\ messages[j].fp = messages[i].fp}) = 1
    /\ \A i, j \in Attributed :
          messages[i].from = messages[j].from /\ messages[i].fp # messages[j].fp
              => messages[i].from \in mismatched

(* A payload acts only as the frame that carried it says.  What is shown   *)
(* came in a message frame under that id: it is the text of a message, or  *)
(* the whole of a plaintext without a tag, never one tagged for another    *)
(* reader.  (A new key has no tag: in a message frame it is shown.)  A     *)
(* name never comes from a payload that is none, and a nick with a         *)
(* signature is taken only if the signature verifies.                      *)
PayloadsKeepKind ==
    /\ \A i \in Contents :
          \E f \in Frames :
              /\ f.kind = "message" /\ f.mid = messages[i].mid
              /\ \/ f.plain.t = "msg" /\ messages[i].text = f.plain.text
                 \/ f.plain.t = None /\ messages[i].text = AsItStands(f.plain)
    /\ roomName # None =>
          \E f \in Frames : f.kind = "room_name_updated" /\ f.plain.t = "room_name" /\ f.plain.name = roomName
    /\ \A c \in DOMAIN peerNicks :
          \E f \in Frames :
              /\ f.kind = "nickname_updated" /\ f.plain.t = "nick"
              /\ f.from = c /\ f.plain.nick = peerNicks[c]
              /\ NickIsSigned(f.plain) =>
                    verifyIdentity(f.plain.pk, f.plain.sig, nickSigData(ChannelId, f.plain.nick))

=============================================================================
