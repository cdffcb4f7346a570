------------------------ MODULE MediaLifecycleProofs ------------------------
(***************************************************************************)
(* Proofs about MediaLifecycle, for any sets of uploads, inbound messages, *)
(* pictures and entities and any bounds.                                   *)
(*                                                                         *)
(* The properties speak of a media nothing works on.  To carry them        *)
(* through a save, a delete or a retention run, the invariant says for     *)
(* each point of those calls which objects exist, at least and at most,    *)
(* for the record as it is (Sound).  It is a statement about one media at  *)
(* a time: steps on another media keep it.  The in-flight entry and the    *)
(* key's record have an invariant of their own (OneOwner, KeysSpent).      *)
(***************************************************************************)
EXTENDS MediaLifecycle, FiniteSetTheorems, SequenceTheorems, TLAPS

-----------------------------------------------------------------------------
(* The in-flight entry.                                                    *)

(* A downloading media is no upload, and only uploads have the phases of   *)
(* the loop of upload_outbound_media_idempotent.                           *)
PhasesFit ==
    /\ \A u \in Uploads : phase[u] # "download"
    /\ \A m \in Media \ Uploads :
          phase[m] \in {"new", "download", "staged", "put", "answered"}

(* The key has no record while an upload works under it.                   *)
OwnerHasNoKey == \A u \in Uploads : phase[u] \in Owning => store.key = NoMedia

OneOwner == InflightHasOneOwner /\ PhasesFit /\ OwnerHasNoKey

(* Each crash may have cost the record of one stored media; the last one   *)
(* stored still has its record, or its upload is about to write it.        *)
KeysSpent ==
    /\ IsFiniteSet(recorded)
    /\ Cardinality(recorded) <= 1 + crashes
    /\ (store.key = NoMedia /\ \A u \in Uploads : phase[u] # "recorded")
          => Cardinality(recorded) <= crashes

-----------------------------------------------------------------------------
(* The bytes of one media: r is its record, K the keys of its objects.     *)

Keys(r) == (IF r.object THEN {"object"} ELSE {})
           \cup (IF r.permanent # "none" THEN {r.permanent} ELSE {})

Shape(m, r) ==
    /\ r.status = "absent" => r = Absent
    /\ r.status = "temp" => r = Temp
    /\ r.status = "rejected" => ~r.object /\ r.permanent = "none"
    /\ r.status = "permanent" => r.permanent # "none"
    /\ r.permanent = "object" => r.object /\ m \in Pictures

(* The bytes the record promises are there.                                *)
Held(r, K) ==
    /\ (r.object /\ r.status = "temp") => "object" \in K
    /\ (r.object /\ r.status = "permanent") => r.permanent \in K

(* A deleted media, and one that never had bytes, has none.                *)
Bare(r, K) == r.status = "deleted" \/ ~r.object => K = {}

(* No bytes but the record's.                                              *)
Whole(r, K) == K \subseteq Keys(r) /\ Held(r, K) /\ Bare(r, K)

(* A save at its step s: what it copied is there.                          *)
Saving(r, K, s) ==
    /\ r.object
    /\ \/ s[1] = "copy" /\ Whole(r, K)
       \/ /\ s[1] = "copied" /\ r.status # "deleted"
          /\ s[2] \in K /\ K \subseteq Keys(r) \cup {s[2]} /\ Held(r, K)

(* A delete with the keys d still to go: no object beyond them is left,    *)
(* and until the last one is gone the record's promise holds, but not for  *)
(* a picture, whose one object it deletes twice.                           *)
Removing(m, r, K, d) ==
    /\ Bare(r, K)
    /\ \/ d = <<"mark">> /\ K = {}
       \/ /\ m \notin Pictures => Held(r, K)
          /\ \/ /\ d = <<"object", "mark">> /\ r.object /\ K \subseteq {"object"}
                /\ r.permanent = "none" \/ m \in Pictures
             \/ /\ d = <<r.permanent, "mark">> /\ r.permanent # "none"
                /\ K \subseteq {r.permanent}
             \/ /\ d = <<"object", r.permanent, "mark">>
                /\ r.object /\ r.permanent # "none"
                /\ K \subseteq {"object", r.permanent}

(* At most one of save s, delete d and retention works on the media: todo  *)
(* holds its clone, and gone is not empty when its bytes were deleted.     *)
State(m, r, K, s, d, todo, gone) ==
    \/ s = NotSaving /\ d = <<>> /\ todo = {} /\ gone = {} /\ Whole(r, K)
    \/ s # NotSaving /\ d = <<>> /\ todo = {} /\ gone = {} /\ Saving(r, K, s)
    \/ s = NotSaving /\ d # <<>> /\ todo = {} /\ gone = {} /\ Removing(m, r, K, d)
    \/ s = NotSaving /\ d = <<>> /\ todo = {r} /\ gone = {} /\ Whole(r, K)
    \/ s = NotSaving /\ d = <<>> /\ todo = {} /\ gone # {} /\ K = {}

(* One media in phase ph of its arrival.                                   *)
SoundView(m, r, K, ph, s, d, todo, gone) ==
    /\ Shape(m, r)
    /\ ph \in {"new", "waiting", "owner", "download", "staged"} => r = Absent /\ K = {}
    /\ ph = "put" => r = Absent /\ K = {"object"}
    /\ r = Absent => (s = NotSaving /\ d = <<>> /\ todo = {} /\ gone = {})
    /\ ph # "put" => State(m, r, K, s, d, todo, gone)

Kept(m) == {k \in ObjectKeys : <<m, k>> \in objects}
ToSweep(m) == {r \in Records : <<m, r>> \in sweep.todo}
Swept(m) == sweep.deleted \cap {m}

Sound(m) ==
    /\ SoundView(m, store.media[m], Kept(m), phase[m], save[m], remove[m],
                 ToSweep(m), Swept(m))
    /\ m \in staging => phase[m] \in {"staged", "put"}

(* Retention takes an inbound media's message only together with its       *)
(* record: the run has dealt with the record, or there is none to come.    *)
MessageSound(i) ==
    /\ i \in store.messages => phase[i] # "new"
    /\ i \notin store.messages => store.media[i] = Absent /\ phase[i] \in {"new", "answered"}
    /\ i \in sweep.messages =>
          /\ phase[i] = "answered"
          /\ \/ store.media[i] = Absent
             \/ i \in sweep.failed \cup sweep.deleted \/ ToSweep(i) # {}

BytesSound ==
    /\ \A m \in Media \ (raced \cup leaked) : Sound(m)
    /\ \A i \in Inbound \ (raced \cup leaked) : MessageSound(i)

IInv == TypeOK /\ OneOwner /\ KeysSpent /\ BytesSound

-----------------------------------------------------------------------------
(* The list of keys that a delete works through.                           *)

LEMMA PairConcat == ASSUME NEW a, NEW b PROVE <<a>> \o <<b>> = <<a, b>>
<1> DEFINE S == {a, b}
           s == <<a>> \o <<b>>
           t == <<a, b>>
<1>1. /\ <<a>> \in Seq(S) /\ <<b>> \in Seq(S)
      /\ t \in Seq(S) /\ Len(t) = 2 /\ t[1] = a /\ t[2] = b
  OBVIOUS
<1>2. Len(<<a>>) = 1 /\ Len(<<b>>) = 1 /\ <<a>>[1] = a /\ <<b>>[1] = b
  OBVIOUS
<1>3. s \in Seq(S) /\ Len(s) = 2 /\ s[1] = a /\ s[2] = b
  <2> HIDE DEF S
  <2> QED
    BY <1>1, <1>2, ConcatProperties
<1> HIDE DEF S, s, t
<1>4. s = t
  BY <1>1, <1>3, SeqEqual
<1> QED
  BY <1>4 DEF s, t

LEMMA TripleConcat == ASSUME NEW a, NEW b, NEW c PROVE <<a, b>> \o <<c>> = <<a, b, c>>
<1> DEFINE S == {a, b, c}
           s == <<a, b>> \o <<c>>
           t == <<a, b, c>>
<1>1. /\ <<a, b>> \in Seq(S) /\ <<c>> \in Seq(S)
      /\ t \in Seq(S) /\ Len(t) = 3 /\ t[1] = a /\ t[2] = b /\ t[3] = c
  OBVIOUS
<1>2. /\ Len(<<a, b>>) = 2 /\ <<a, b>>[1] = a /\ <<a, b>>[2] = b
      /\ Len(<<c>>) = 1 /\ <<c>>[1] = c
  OBVIOUS
<1>3. s \in Seq(S) /\ Len(s) = 3 /\ s[1] = a /\ s[2] = b /\ s[3] = c
  <2> HIDE DEF S
  <2> QED
    BY <1>1, <1>2, ConcatProperties
<1> HIDE DEF S, s, t
<1>4. s = t
  BY <1>1, <1>3, SeqEqual
<1> QED
  BY <1>4 DEF s, t

LEMMA EmptyConcat == ASSUME NEW a PROVE <<>> \o <<a>> = <<a>> /\ <<a>> \o <<>> = <<a>>
<1> DEFINE S == {a}
<1>1. <<a>> \in Seq(S)
  OBVIOUS
<1> HIDE DEF S
<1> QED
  BY <1>1, ConcatEmptySeq

(* KeysOf lists Keys, and its four forms with the mark at the end.         *)
LEMMA KeyLists ==
    ASSUME NEW r \in Records
    PROVE  /\ Range(KeysOf(r)) = Keys(r)
           /\ r.object /\ r.permanent # "none" =>
                 KeysOf(r) \o <<"mark">> = <<"object", r.permanent, "mark">>
           /\ r.object /\ r.permanent = "none" =>
                 KeysOf(r) \o <<"mark">> = <<"object", "mark">>
           /\ ~r.object /\ r.permanent # "none" =>
                 KeysOf(r) \o <<"mark">> = <<r.permanent, "mark">>
           /\ ~r.object /\ r.permanent = "none" => KeysOf(r) \o <<"mark">> = <<"mark">>
<1>0. r.object \in BOOLEAN
  BY DEF Records
<1>1. CASE r.object /\ r.permanent # "none"
  <2>1. KeysOf(r) = <<"object", r.permanent>>
    BY <1>1, PairConcat DEF KeysOf
  <2> QED
    BY <1>1, <2>1, TripleConcat DEF Keys, Range
<1>2. CASE r.object /\ r.permanent = "none"
  <2>1. KeysOf(r) = <<"object">>
    BY <1>2, EmptyConcat DEF KeysOf
  <2> QED
    BY <1>2, <2>1, PairConcat DEF Keys, Range
<1>3. CASE ~r.object /\ r.permanent # "none"
  <2>1. KeysOf(r) = <<r.permanent>>
    BY <1>3, EmptyConcat DEF KeysOf
  <2> QED
    BY <1>3, <2>1, PairConcat DEF Keys, Range
<1>4. CASE ~r.object /\ r.permanent = "none"
  <2>1. KeysOf(r) = <<>>
    BY <1>4 DEF KeysOf
  <2> QED
    BY <1>4, <2>1, EmptyConcat DEF Keys, Range
<1> QED
  BY <1>0, <1>1, <1>2, <1>3, <1>4

-----------------------------------------------------------------------------
(* Types.                                                                  *)

LEMMA RecordTypes ==
    /\ Absent \in Records /\ Temp \in Records /\ PictureRecord \in Records
    /\ Record("rejected", FALSE, "none") \in Records
    /\ \A o \in BOOLEAN, e \in Entities : Record("permanent", o, e) \in Records
    /\ \A r \in Records : /\ r.object \in BOOLEAN
                          /\ r.permanent \in {"none"} \cup ObjectKeys
                          /\ [r EXCEPT !.status = "deleted"] \in Records
  BY DEF Absent, Temp, PictureRecord, Record, Records, ObjectKeys

(* A record written to the store leaves a store.                           *)
LEMMA StoreWrites ==
    ASSUME NEW s \in Stores
    PROVE  /\ s.media \in [Media -> Records]
           /\ s.key \in Uploads \cup {NoMedia} /\ s.messages \subseteq Inbound
           /\ \A m \in Media, r \in Records : [s EXCEPT !.media[m] = r] \in Stores
           /\ \A u \in Uploads \cup {NoMedia} : [s EXCEPT !.key = u] \in Stores
  BY DEF Stores

LEMMA ConstantTypes ==
    /\ MaxOps \in Nat /\ MaxFaults \in Nat
    /\ Uploads \subseteq Media /\ Inbound \subseteq Media /\ Pictures \subseteq Media
    /\ Targets \subseteq Media
  BY MediaAssumption DEF Media

LEMMA SaveTypes ==
    ASSUME NEW s \in Saves, s[1] \in {"copy", "copied"}
    PROVE  s # NotSaving /\ s[2] \in Entities /\ <<"copied", s[2]>> \in Saves
  BY DEF Saves, NotSaving

LEMMA InitType == Init => TypeOK
<1> SUFFICES ASSUME Init PROVE TypeOK
  OBVIOUS
<1>1. store \in Stores /\ snapshot \in Stores
  BY RecordTypes DEF Init, Stores
<1>2. RequestType
  BY DEF Init, RequestType
<1>3. CallerType
  <2>1. save \in [Media -> Saves] /\ remove \in [Media -> Seq(ObjectKeys \cup {"mark"})]
    BY DEF Init, Saves
  <2>2. sweep \in Sweeps
    BY DEF Init, NotSweeping, Sweeps
  <2> QED
    BY <2>1, <2>2 DEF CallerType
<1>4. objects \subseteq Media \X ObjectKeys /\ HistoryType
  BY DEF Init, HistoryType
<1>5. CounterType
  BY ConstantTypes DEF Init, CounterType
<1> QED
  BY <1>1, <1>2, <1>3, <1>4, <1>5 DEF TypeOK

(* A fault and an operation are counted.                                   *)
LEMMA Counted ==
    ASSUME CounterType
    PROVE  /\ Fault /\ UNCHANGED <<ops, crashes>> => CounterType'
           /\ Fault /\ crashes' = crashes + 1 /\ UNCHANGED ops => CounterType'
           /\ Operation /\ UNCHANGED <<faults, crashes>> => CounterType'
           /\ UNCHANGED counters => CounterType'
  BY ConstantTypes DEF CounterType, Fault, Operation, counters

LEMMA Unchanged ==
    /\ RequestType /\ UNCHANGED requests => RequestType'
    /\ CallerType /\ UNCHANGED callers => CallerType'
    /\ HistoryType /\ UNCHANGED <<recorded, raced, leaked>> => HistoryType'
  BY DEF RequestType, requests, CallerType, callers, HistoryType

(* The requests and downloads.                                             *)
LEMMA RequestNextType ==
    ASSUME TypeOK,
           \/ \E u \in Uploads : UploadSteps(u) \/ GiveUpWaiting(u) \/ CancelUpload(u)
           \/ \E i \in Inbound : InboundSteps(i)
           \/ \E m \in Media : Refuse(m) \/ PutFails(m)
           \/ \E p \in Pictures : FetchPicture(p) \/ PutBytes(p) \/ RecordMedia(p)
    PROVE  TypeOK'
<1>t. /\ store \in Stores /\ snapshot \in Stores /\ RequestType /\ CallerType
      /\ HistoryType /\ CounterType /\ objects \subseteq Media \X ObjectKeys
  BY DEF TypeOK
<1> USE <1>t, Counted, Unchanged
<1>a. ASSUME NEW m \in Media, Answer(m), staging' \subseteq staging,
             inflight' \in {inflight, NoBody}
      PROVE  RequestType'
  BY <1>a DEF RequestType, Answer
<1>b. ASSUME NEW m \in Media, NEW p \in Arriving, UNCHANGED <<inflight, body>>,
             phase' = [phase EXCEPT ![m] = p], staging' \subseteq staging \cup {m}
      PROVE  RequestType'
  BY <1>b DEF RequestType
<1>c. ASSUME NEW m \in Media
      PROVE  objects \cup {<<m, "object">>} \subseteq Media \X ObjectKeys
  BY DEF ObjectKeys
<1>1. ASSUME NEW u \in Uploads, NEW b \in Bodies, EnterUpload(u, b) PROVE TypeOK'
  <2>1. RequestType'
    <3>1. CASE Answer(u) /\ UNCHANGED inflight
      BY <1>1, <3>1, <1>a, ConstantTypes DEF EnterUpload
    <3>2. CASE ~(Answer(u) /\ UNCHANGED inflight)
      BY <1>1, <3>2, ConstantTypes DEF EnterUpload, RequestType, Arriving, Owning
    <3> QED
      BY <3>1, <3>2
  <2> QED
    BY <1>1, <2>1 DEF EnterUpload, TypeOK
<1>2. ASSUME NEW u \in Uploads, GiveUpWaiting(u) PROVE TypeOK'
  <2>1. RequestType'
    BY <1>2, <1>a, ConstantTypes DEF GiveUpWaiting
  <2> QED
    BY <1>2, <2>1 DEF GiveUpWaiting, TypeOK
<1>3. ASSUME NEW u \in Uploads, CancelUpload(u) PROVE TypeOK'
  <2>1. RequestType'
    BY <1>3, <1>a, ConstantTypes DEF CancelUpload
  <2>2. objects' \subseteq Media \X ObjectKeys
    BY <1>3, <1>c, ConstantTypes DEF CancelUpload
  <2>3. HistoryType' /\ CounterType'
    BY <1>3, ConstantTypes DEF CancelUpload, HistoryType
  <2> QED
    BY <1>3, <2>1, <2>2, <2>3 DEF CancelUpload, TypeOK
<1>4. ASSUME NEW i \in Inbound, ReceiveInbound(i) PROVE TypeOK'
  <2>1. RequestType'
    BY <1>4, <1>b, ConstantTypes DEF ReceiveInbound, Arriving
  <2>2. store' \in Stores
    BY <1>4 DEF ReceiveInbound, Stores
  <2> QED
    BY <1>4, <2>1, <2>2 DEF ReceiveInbound, TypeOK
<1>5. ASSUME NEW i \in Inbound, RejectInbound(i) PROVE TypeOK'
  <2>1. RequestType'
    BY <1>5, <1>a, ConstantTypes DEF RejectInbound
  <2>2. store' \in Stores
    BY <1>5, StoreWrites, RecordTypes, ConstantTypes DEF RejectInbound
  <2> QED
    BY <1>5, <2>1, <2>2 DEF RejectInbound, TypeOK
<1>6. ASSUME NEW p \in Pictures, FetchPicture(p) PROVE TypeOK'
  <2>1. RequestType'
    BY <1>6, <1>b, ConstantTypes DEF FetchPicture, Arriving
  <2> QED
    BY <1>6, <2>1 DEF FetchPicture, TypeOK
<1>7. ASSUME NEW m \in Media, Stage(m) PROVE TypeOK'
  <2>1. RequestType'
    BY <1>7, <1>b DEF Stage, Arriving, Owning
  <2> QED
    BY <1>7, <2>1 DEF Stage, TypeOK
<1>8. ASSUME NEW m \in Media, Refuse(m) PROVE TypeOK'
  <2>1. RequestType'
    BY <1>8, <1>a DEF Refuse, Finish
  <2> QED
    BY <1>8, <2>1 DEF Refuse, TypeOK
<1>9. ASSUME NEW m \in Media, PutBytes(m) PROVE TypeOK'
  <2>1. RequestType'
    BY <1>9, <1>b DEF PutBytes, Arriving, Owning
  <2> QED
    BY <1>9, <1>c, <2>1 DEF PutBytes, TypeOK
<1>10. ASSUME NEW m \in Media, PutFails(m) PROVE TypeOK'
  <2>1. RequestType'
    BY <1>10, <1>a DEF PutFails, Finish
  <2>2. objects' \subseteq Media \X ObjectKeys
    BY <1>10, <1>c DEF PutFails
  <2>3. HistoryType' /\ CounterType'
    BY <1>10 DEF PutFails, HistoryType
  <2> QED
    BY <1>10, <2>1, <2>2, <2>3 DEF PutFails, TypeOK
<1>11. ASSUME NEW m \in Media, RecordMedia(m) PROVE TypeOK'
  <2>1. RequestType'
    BY <1>11 DEF RecordMedia, RequestType, Arriving, Owning
  <2>2. store' \in Stores
    BY <1>11, StoreWrites, RecordTypes DEF RecordMedia
  <2>3. HistoryType'
    BY <1>11 DEF RecordMedia, HistoryType
  <2> QED
    BY <1>11, <2>1, <2>2, <2>3 DEF RecordMedia, TypeOK
<1>12. ASSUME NEW u \in Uploads, RecordKey(u) PROVE TypeOK'
  <2>1. RequestType'
    BY <1>12, <1>a, ConstantTypes DEF RecordKey, Finish
  <2>2. store' \in Stores
    BY <1>12, StoreWrites DEF RecordKey
  <2> QED
    BY <1>12, <2>1, <2>2 DEF RecordKey, TypeOK
<1> QED
  BY <1>1, <1>2, <1>3, <1>4, <1>5, <1>6, <1>7, <1>8, <1>9, <1>10, <1>11, <1>12, ConstantTypes
  DEF UploadSteps, InboundSteps

(* Saves, deletes and retention, the snapshot and the crash.               *)
LEMMA CallerNextType ==
    ASSUME TypeOK,
           \/ \E m \in Targets, e \in Entities : BeginSave(m, e)
           \/ \E m \in Targets : BeginDelete(m)
           \/ \E M \in SUBSET (Inbound \cap Targets), T \in SUBSET Targets : BeginSweep(M, T)
           \/ CallerSteps
           \/ Persist
           \/ Crash
    PROVE  TypeOK'
<1>t. /\ store \in Stores /\ snapshot \in Stores /\ RequestType /\ CallerType
      /\ HistoryType /\ CounterType /\ objects \subseteq Media \X ObjectKeys
  BY DEF TypeOK
<1> USE <1>t, Counted, Unchanged
<1>r. \A m \in Media : store.media[m] \in Records /\ store.media[m].object \in BOOLEAN
  BY StoreWrites, RecordTypes
<1>s. ASSUME NEW s \in Saves, NEW m \in Media, UNCHANGED <<remove, sweep>>,
             save' = [save EXCEPT ![m] = s]
      PROVE  CallerType'
  BY <1>s DEF CallerType
<1>d. ASSUME NEW d \in Seq(ObjectKeys \cup {"mark"}), NEW m \in Media,
             UNCHANGED <<save, sweep>>, remove' = [remove EXCEPT ![m] = d]
      PROVE  CallerType'
  BY <1>d DEF CallerType
<1>w. ASSUME sweep' \in Sweeps, UNCHANGED <<save, remove>> PROVE CallerType'
  BY <1>w DEF CallerType
<1>n. NotSaving \in Saves /\ <<>> \in Seq(ObjectKeys \cup {"mark"})
  BY DEF Saves
<1>1. ASSUME NEW m \in Media, NEW e \in Entities, BeginSave(m, e) PROVE TypeOK'
  <2>1. store' \in Stores
    <3>1. CASE store' = [store EXCEPT !.media[m] = Record("permanent", FALSE, e)]
      <4>1. Record("permanent", FALSE, e) \in Records
        BY RecordTypes
      <4> QED
        BY <3>1, <4>1, StoreWrites
    <3> QED
      BY <1>1, <3>1 DEF BeginSave
  <2>2. CallerType'
    <3>1. <<"copy", e>> \in Saves
      BY DEF Saves
    <3>2. CASE save' = save
      BY <1>1, <3>2 DEF BeginSave, callers
    <3>3. CASE save' # save
      BY <1>1, <1>s, <3>1, <3>3 DEF BeginSave
    <3> QED
      BY <3>2, <3>3
  <2>3. HistoryType' /\ CounterType'
    BY <1>1 DEF BeginSave, HistoryType, requests
  <2> QED
    BY <1>1, <2>1, <2>2, <2>3 DEF BeginSave, TypeOK
<1>2. ASSUME NEW m \in Media, CopyBytes(m) PROVE TypeOK'
  <2>1. save[m] \in Saves /\ save[m][1] = "copy"
    BY <1>2 DEF CopyBytes, CallerType
  <2>2. save[m][2] \in Entities /\ <<"copied", save[m][2]>> \in Saves
    BY <2>1, SaveTypes
  <2>3. CallerType'
    BY <1>2, <1>s, <1>n, <2>2 DEF CopyBytes
  <2>4. objects' \subseteq Media \X ObjectKeys
    <3>1. <<m, save[m][2]>> \in Media \X ObjectKeys
      BY <2>2 DEF ObjectKeys
    <3> QED
      BY <1>2, <3>1 DEF CopyBytes
  <2>5. CounterType' /\ HistoryType'
    BY <1>2 DEF CopyBytes, HistoryType, counters, requests
  <2> QED
    BY <1>2, <2>3, <2>4, <2>5 DEF CopyBytes, TypeOK
<1>3. ASSUME NEW m \in Media, FinishSave(m) PROVE TypeOK'
  <2>1. save[m] \in Saves /\ save[m][1] = "copied"
    BY <1>3 DEF FinishSave, CallerType
  <2>2. save[m][2] \in Entities
    BY <2>1, SaveTypes
  <2>3. store' \in Stores
    BY <1>3, <1>r, <2>2, StoreWrites, RecordTypes DEF FinishSave
  <2>4. CallerType'
    BY <1>3, <1>s, <1>n DEF FinishSave
  <2>5. HistoryType'
    BY <1>3 DEF FinishSave, HistoryType, requests
  <2> QED
    BY <1>3, <2>3, <2>4, <2>5 DEF FinishSave, TypeOK
<1>4. ASSUME NEW m \in Media, BeginDelete(m) PROVE TypeOK'
  <2>1. KeysOf(store.media[m]) \o <<"mark">> \in Seq(ObjectKeys \cup {"mark"})
    <3>1. PICK r \in Records : r = store.media[m]
      BY <1>r
    <3>2. /\ r.permanent # "none" => r.permanent \in ObjectKeys
          /\ "object" \in ObjectKeys /\ r.object \in BOOLEAN
      BY RecordTypes DEF ObjectKeys
    <3>3. DEFINE S == ObjectKeys \cup {"mark"}
    <3>4. /\ <<"mark">> \in Seq(S) /\ <<"object", "mark">> \in Seq(S)
          /\ \A k \in ObjectKeys :
                <<k, "mark">> \in Seq(S) /\ <<"object", k, "mark">> \in Seq(S)
      BY <3>2
    <3> HIDE DEF S
    <3>5. KeysOf(r) \o <<"mark">> \in Seq(S)
      BY <3>2, <3>4, KeyLists
    <3> QED
      BY <3>1, <3>5 DEF S
  <2>2. CallerType'
    BY <1>4, <1>d, <2>1 DEF BeginDelete
  <2>3. HistoryType' /\ CounterType'
    BY <1>4 DEF BeginDelete, HistoryType, requests
  <2> QED
    BY <1>4, <2>2, <2>3 DEF BeginDelete, TypeOK
<1>5. ASSUME NEW m \in Media, DeleteBytes(m) PROVE TypeOK'
  <2>1. Tail(remove[m]) \in Seq(ObjectKeys \cup {"mark"})
    BY <1>5 DEF DeleteBytes, CallerType
  <2>2. CallerType'
    BY <1>5, <1>d, <1>n, <2>1 DEF DeleteBytes
  <2>3. objects' \subseteq Media \X ObjectKeys
    BY <1>5 DEF DeleteBytes
  <2>4. HistoryType' /\ CounterType'
    BY <1>5 DEF DeleteBytes, LeakIfGone, HistoryType, requests, counters
  <2> QED
    BY <1>5, <2>2, <2>3, <2>4 DEF DeleteBytes, TypeOK
<1>6. ASSUME NEW m \in Media, FinishDelete(m) PROVE TypeOK'
  <2>1. store' \in Stores
    BY <1>6, <1>r, RecordTypes DEF FinishDelete, Stores
  <2>2. CallerType'
    BY <1>6, <1>d, <1>n DEF FinishDelete
  <2> QED
    BY <1>6, <2>1, <2>2 DEF FinishDelete, TypeOK, requests
<1>7. ASSUME NEW M \in SUBSET (Inbound \cap Targets), NEW T \in SUBSET Targets,
             BeginSweep(M, T)
      PROVE  TypeOK'
  <2>1. M \subseteq Media /\ T \subseteq Media
    BY ConstantTypes
  <2>2. PICK C \in SUBSET Media :
          /\ sweep' = [NotSweeping EXCEPT !.step = "bytes", !.messages = M,
                           !.todo = {<<m, store.media[m]>> : m \in C}]
          /\ raced' = raced \cup {m \in C : Busy(m)} \cup {m \in M : phase[m] \in Arriving}
    BY <1>7, <2>1 DEF BeginSweep
  <2>3. {<<m, store.media[m]>> : m \in C} \subseteq Media \X Records
    BY <1>r
  <2>4. sweep' \in Sweeps
    BY <2>2, <2>3 DEF NotSweeping, Sweeps
  <2>5. CallerType'
    BY <1>7, <1>w, <2>4 DEF BeginSweep
  <2>6. HistoryType' /\ CounterType'
    BY <1>7, <2>1, <2>2 DEF BeginSweep, HistoryType, requests
  <2> QED
    BY <1>7, <2>5, <2>6 DEF BeginSweep, TypeOK
<1>8. ASSUME NEW c \in sweep.todo, SweepBytes(c) PROVE TypeOK'
  <2>1. sweep \in Sweeps /\ c[1] \in Media
    BY DEF CallerType, Sweeps
  <2>2. PICK D \in SUBSET Media, F \in SUBSET Media :
           sweep' = [sweep EXCEPT !.todo = @ \ {c}, !.deleted = D, !.failed = F]
    <3>1. CASE sweep' = [sweep EXCEPT !.todo = @ \ {c}, !.deleted = @ \cup {c[1]}]
      <4>1. sweep' = [sweep EXCEPT !.todo = @ \ {c}, !.deleted = sweep.deleted \cup {c[1]},
                                   !.failed = sweep.failed]
        BY <2>1, <3>1 DEF Sweeps
      <4> QED
        BY <2>1, <4>1 DEF Sweeps
    <3>2. CASE sweep' = [sweep EXCEPT !.todo = @ \ {c}, !.failed = @ \cup {c[1]}]
      <4>1. sweep' = [sweep EXCEPT !.todo = @ \ {c}, !.deleted = sweep.deleted,
                                   !.failed = sweep.failed \cup {c[1]}]
        BY <2>1, <3>2 DEF Sweeps
      <4> QED
        BY <2>1, <4>1 DEF Sweeps
    <3> QED
      BY <1>8, <3>1, <3>2 DEF SweepBytes
  <2>3. sweep' \in Sweeps
    BY <2>1, <2>2 DEF Sweeps
  <2>4. CallerType'
    BY <1>8, <1>w, <2>3 DEF SweepBytes
  <2>5. objects' \subseteq Media \X ObjectKeys
    BY <1>8 DEF SweepBytes
  <2>6. HistoryType' /\ CounterType'
    BY <1>8, <2>1 DEF SweepBytes, LeakIfGone, HistoryType, requests, counters
  <2> QED
    BY <1>8, <2>4, <2>5, <2>6 DEF SweepBytes, TypeOK
<1>9. CASE FinishSweep
  <2>1. store' \in Stores
    BY <1>9, RecordTypes DEF FinishSweep, Stores
  <2>2. sweep' \in Sweeps
    BY <1>9 DEF FinishSweep, NotSweeping, Sweeps
  <2>3. CallerType'
    BY <1>9, <1>w, <2>2 DEF FinishSweep
  <2> QED
    BY <1>9, <2>1, <2>3 DEF FinishSweep, TypeOK, requests
<1>10. CASE Persist
  BY <1>10 DEF Persist, TypeOK, requests
<1>11. CASE Crash
  <2>1. store' \in Stores
    BY <1>11, StoreWrites DEF Crash, Loaded
  <2>2. RequestType'
    BY <1>11 DEF Crash, RequestType
  <2>3. CallerType'
    <3>1. sweep' \in Sweeps
      BY <1>11 DEF Crash, NotSweeping, Sweeps
    <3> QED
      BY <1>11, <1>n, <3>1 DEF Crash, CallerType
  <2>4. CounterType'
    BY <1>11 DEF Crash
  <2>5. HistoryType'
    BY <1>11 DEF Crash, HistoryType
  <2> QED
    BY <1>11, <2>1, <2>2, <2>3, <2>4, <2>5 DEF Crash, TypeOK
<1> QED
  BY <1>1, <1>2, <1>3, <1>4, <1>5, <1>6, <1>7, <1>8, <1>9, <1>10, <1>11, ConstantTypes
  DEF CallerSteps

LEMMA NextType == TypeOK /\ [Next]_vars => TypeOK'
<1>1. ASSUME TypeOK, UNCHANGED vars PROVE TypeOK'
  BY <1>1 DEF TypeOK, RequestType, CallerType, HistoryType, CounterType, vars
<1> QED
  BY <1>1, RequestNextType, CallerNextType DEF Next

-----------------------------------------------------------------------------
(* The in-flight entry and the key's record.  A step that moves a request  *)
(* has one of four forms.                                                  *)

(* An upload keeps the entry, or the media is no upload.                   *)
LEMMA OwnerMoves ==
    ASSUME TypeOK, OneOwner, NEW m \in Media, NEW p,
           phase' = [phase EXCEPT ![m] = p], UNCHANGED <<inflight, body>>,
           store'.key = store.key,
           m \in Uploads => phase[m] \in Owning /\ p \in Owning,
           m \notin Uploads => p \in {"new", "download", "staged", "put", "answered"}
    PROVE  OneOwner'
<1>1. phase \in [Media -> {"new", "waiting", "answered"} \cup Arriving]
  BY DEF TypeOK, RequestType
<1>2. \A u \in Uploads : phase'[u] \in Owning <=> phase[u] \in Owning
  BY <1>1, ConstantTypes
<1>3. PhasesFit'
  BY <1>1, ConstantTypes DEF OneOwner, PhasesFit, Owning
<1> QED
  BY <1>2, <1>3 DEF OneOwner, InflightHasOneOwner, OwnerHasNoKey

(* A request that holds no entry is answered.                              *)
LEMMA OthersAnswered ==
    ASSUME TypeOK, OneOwner, NEW m \in Media, Answer(m), UNCHANGED inflight,
           store'.key = store.key, m \in Uploads => phase[m] \notin Owning
    PROVE  OneOwner'
<1>1. /\ phase \in [Media -> {"new", "waiting", "answered"} \cup Arriving]
      /\ body \in [Media -> Bodies \cup {NoBody}]
  BY DEF TypeOK, RequestType
<1>2. \A u \in Uploads : /\ phase'[u] \in Owning <=> phase[u] \in Owning
                         /\ phase[u] \in Owning => body'[u] = body[u]
  BY <1>1, ConstantTypes DEF Answer, Owning
<1>3. PhasesFit'
  BY <1>1, ConstantTypes DEF OneOwner, PhasesFit, Answer
<1> QED
  BY <1>2, <1>3 DEF OneOwner, InflightHasOneOwner, OwnerHasNoKey

(* The owner is answered and gives up the entry: nobody holds it.          *)
LEMMA OwnerReleases ==
    ASSUME TypeOK, OneOwner, NEW m \in Uploads, phase[m] \in Owning,
           Answer(m), inflight' = NoBody
    PROVE  OneOwner'
<1>1. phase \in [Media -> {"new", "waiting", "answered"} \cup Arriving]
  BY DEF TypeOK, RequestType
<1>2. \A u \in Uploads : phase'[u] \notin Owning
  BY <1>1, ConstantTypes DEF Answer, Owning, OneOwner, InflightHasOneOwner
<1>3. PhasesFit'
  BY <1>1, ConstantTypes DEF OneOwner, PhasesFit, Answer
<1> QED
  BY <1>2, <1>3 DEF OneOwner, InflightHasOneOwner, OwnerHasNoKey

(* Nothing of it changes.                                                  *)
LEMMA OwnersUntouched ==
    OneOwner /\ UNCHANGED <<phase, body, inflight>> /\ store'.key = store.key => OneOwner'
  BY DEF OneOwner, InflightHasOneOwner, PhasesFit, OwnerHasNoKey

(* Every write to the store but RecordKey and a crash keeps the key.       *)
LEMMA KeyIsKept ==
    ASSUME TypeOK
    PROVE  /\ \A m \in Media : RecordMedia(m) \/ FinishSave(m) \/ FinishDelete(m)
                                  => store'.key = store.key
           /\ \A i \in Inbound : ReceiveInbound(i) \/ RejectInbound(i) => store'.key = store.key
           /\ \A m \in Media, e \in Entities : BeginSave(m, e) => store'.key = store.key
           /\ FinishSweep => store'.key = store.key
<1>1. store \in Stores
  BY DEF TypeOK
<1> QED
  BY <1>1 DEF Stores, RecordMedia, FinishSave, FinishDelete, ReceiveInbound, RejectInbound,
     BeginSave, FinishSweep

LEMMA UploadsAreNoDownloads == Uploads \cap (Inbound \cup Pictures) = {}
  BY MediaAssumption

LEMMA OwnerNext == TypeOK /\ OneOwner /\ [Next]_vars => OneOwner'
<1> SUFFICES ASSUME TypeOK, OneOwner, [Next]_vars PROVE OneOwner'
  OBVIOUS
<1>t. /\ phase \in [Media -> {"new", "waiting", "answered"} \cup Arriving]
      /\ body \in [Media -> Bodies \cup {NoBody}] /\ store \in Stores
  BY DEF TypeOK, RequestType
<1>p. PhasesFit
  BY DEF OneOwner
<1>1. ASSUME NEW u \in Uploads, NEW b \in Bodies, EnterUpload(u, b) PROVE OneOwner'
  <2>1. phase[u] \notin Owning /\ store' = store
    BY <1>1 DEF EnterUpload, Owning
  <2>2. CASE Answer(u) /\ UNCHANGED inflight
    BY <2>1, <2>2, OthersAnswered, ConstantTypes
  <2>3. CASE ~(Answer(u) /\ UNCHANGED inflight)
    <3>1. /\ store.key = NoMedia /\ inflight \in {NoBody, b} /\ inflight' = b
          /\ phase' = [phase EXCEPT ![u] = IF inflight = b THEN "waiting" ELSE "owner"]
          /\ body' = [body EXCEPT ![u] = b]
      BY <1>1, <2>3 DEF EnterUpload
    <3>2. b # NoBody
      BY MediaAssumption DEF NoBody
    <3>3. PhasesFit'
      BY <1>t, <1>p, <3>1, ConstantTypes DEF PhasesFit
    <3>4. OwnerHasNoKey'
      BY <2>1, <3>1 DEF OwnerHasNoKey
    <3>5. InflightHasOneOwner'
      <4>1. CASE inflight = b
        <5>1. \A v \in Uploads : /\ phase'[v] \in Owning <=> phase[v] \in Owning
                                 /\ phase[v] \in Owning => body'[v] = body[v]
          BY <1>t, <2>1, <3>1, <4>1, ConstantTypes DEF Owning
        <5> QED
          BY <3>1, <4>1, <5>1 DEF OneOwner, InflightHasOneOwner
      <4>2. CASE inflight = NoBody
        <5>1. \A v \in Uploads : phase[v] \notin Owning
          BY <4>2 DEF OneOwner, InflightHasOneOwner
        <5>2. /\ phase'[u] = "owner" /\ body'[u] = b
              /\ \A v \in Uploads \ {u} : phase'[v] \notin Owning
          BY <1>t, <3>1, <3>2, <4>2, <5>1, ConstantTypes
        <5> QED
          BY <3>1, <3>2, <5>2 DEF InflightHasOneOwner, Owning
      <4> QED
        BY <3>1, <4>1, <4>2
    <3> QED
      BY <3>3, <3>4, <3>5 DEF OneOwner
  <2> QED
    BY <2>2, <2>3
<1>2. ASSUME NEW u \in Uploads, GiveUpWaiting(u) PROVE OneOwner'
  BY <1>2, OthersAnswered, ConstantTypes DEF GiveUpWaiting, Owning
<1>3. ASSUME NEW u \in Uploads, CancelUpload(u) PROVE OneOwner'
  <2>1. CASE phase[u] = "staged"
    BY <1>3, <2>1, OwnerReleases DEF CancelUpload, Owning
  <2>2. CASE phase[u] = "waiting"
    BY <1>3, <2>2, OthersAnswered, ConstantTypes DEF CancelUpload, Owning
  <2> QED
    BY <1>3, <2>1, <2>2 DEF CancelUpload
<1>4. ASSUME NEW i \in Inbound, ReceiveInbound(i) PROVE OneOwner'
  <2>1. i \in Media \ Uploads /\ store'.key = store.key
    BY <1>4, ConstantTypes, UploadsAreNoDownloads, KeyIsKept
  <2> QED
    BY <1>4, <2>1, OwnerMoves DEF ReceiveInbound
<1>5. ASSUME NEW i \in Inbound, RejectInbound(i) PROVE OneOwner'
  <2>1. i \in Media \ Uploads /\ store'.key = store.key
    BY <1>5, ConstantTypes, UploadsAreNoDownloads, KeyIsKept
  <2> QED
    BY <1>5, <2>1, OthersAnswered DEF RejectInbound
<1>6. ASSUME NEW p \in Pictures, FetchPicture(p) PROVE OneOwner'
  <2>1. p \in Media \ Uploads
    BY ConstantTypes, UploadsAreNoDownloads
  <2> QED
    BY <1>6, <2>1, OwnerMoves DEF FetchPicture
<1>7. ASSUME NEW m \in Media, Stage(m) PROVE OneOwner'
  <2>1. m \in Uploads => phase[m] \in Owning
    BY <1>7, <1>p DEF Stage, PhasesFit, Owning
  <2> QED
    BY <1>7, <2>1, OwnerMoves DEF Stage, Owning
<1>8. ASSUME NEW m \in Media, Finish(m), phase[m] \in {"owner", "download", "staged", "recorded"},
             m \notin Uploads => store'.key = store.key
      PROVE  OneOwner'
  <2>1. CASE m \in Uploads
    <3>1. phase[m] \in Owning
      BY <1>8, <1>p, <2>1 DEF PhasesFit, Owning
    <3> QED
      BY <1>8, <2>1, <3>1, OwnerReleases DEF Finish
  <2>2. CASE m \notin Uploads
    BY <1>8, <2>2, OthersAnswered DEF Finish
  <2> QED
    BY <2>1, <2>2
<1>9. ASSUME NEW m \in Media, Refuse(m) \/ PutFails(m) PROVE OneOwner'
  <2>1. Finish(m) /\ phase[m] \in {"owner", "download", "staged"} /\ store' = store
    BY <1>9 DEF Refuse, PutFails, Stored
  <2> QED
    BY <1>8, <2>1
<1>10. ASSUME NEW m \in Media, PutBytes(m) PROVE OneOwner'
  <2>1. m \in Uploads => phase[m] \in Owning
    BY <1>10, UploadsAreNoDownloads DEF PutBytes, Stored, Owning
  <2> QED
    BY <1>10, <2>1, OwnerMoves DEF PutBytes, Owning
<1>11. ASSUME NEW m \in Media, RecordMedia(m) PROVE OneOwner'
  <2>1. store'.key = store.key
    BY <1>11, KeyIsKept
  <2>2. PICK p : /\ phase' = [phase EXCEPT ![m] = p]
                 /\ p = IF m \in Uploads THEN "recorded" ELSE "answered"
    BY <1>11 DEF RecordMedia
  <2>3. phase[m] \in Owning /\ UNCHANGED <<inflight, body>>
    BY <1>11 DEF RecordMedia, Owning
  <2> QED
    BY <2>1, <2>2, <2>3, OwnerMoves DEF Owning
<1>12. ASSUME NEW u \in Uploads, RecordKey(u) PROVE OneOwner'
  BY <1>8, <1>12, ConstantTypes DEF RecordKey
<1>13. CASE UNCHANGED requests /\ store'.key = store.key
  BY <1>13, OwnersUntouched DEF requests
<1>14. CASE Crash
  <2>1. /\ \A m \in Media : phase'[m] \in {"new", "answered"}
        /\ inflight' = NoBody
    BY <1>14 DEF Crash
  <2> QED
    BY <2>1, ConstantTypes
    DEF OneOwner, InflightHasOneOwner, PhasesFit, OwnerHasNoKey, Owning
<1>15. CASE UNCHANGED vars
  BY <1>13, <1>15 DEF vars, requests
<1>16. ASSUME NEW m \in Media, NEW e \in Entities, BeginSave(m, e) PROVE OneOwner'
  BY <1>13, <1>16, KeyIsKept DEF BeginSave
<1>17. ASSUME CallerSteps PROVE OneOwner'
  <2>1. UNCHANGED requests
    BY <1>17 DEF CallerSteps, CopyBytes, FinishSave, DeleteBytes, FinishDelete, SweepBytes,
       FinishSweep
  <2>2. store'.key = store.key
    BY <1>17, KeyIsKept DEF CallerSteps, CopyBytes, DeleteBytes, SweepBytes
  <2> QED
    BY <1>13, <2>1, <2>2
<1>18. ASSUME NEW m, BeginDelete(m) PROVE OneOwner'
  BY <1>13, <1>18 DEF BeginDelete
<1>19. ASSUME NEW M, NEW T, BeginSweep(M, T) PROVE OneOwner'
  BY <1>13, <1>19 DEF BeginSweep
<1>20. CASE Persist
  BY <1>13, <1>20 DEF Persist
<1> QED
  BY <1>1, <1>2, <1>3, <1>4, <1>5, <1>6, <1>7, <1>9, <1>10, <1>11, <1>12, <1>14, <1>15,
     <1>16, <1>17, <1>18, <1>19, <1>20, ConstantTypes
  DEF Next, UploadSteps, InboundSteps

(* A step that stores nothing under the key and forgets no record.         *)
LEMMA NoKeySpent ==
    ASSUME KeysSpent, UNCHANGED <<recorded, crashes>>, store'.key = store.key,
           \A u \in Uploads : phase[u] = "recorded" => phase'[u] = "recorded"
    PROVE  KeysSpent'
  BY DEF KeysSpent

LEMMA KeysNext == TypeOK /\ OneOwner /\ KeysSpent /\ [Next]_vars => KeysSpent'
<1> SUFFICES ASSUME TypeOK, OneOwner, KeysSpent, [Next]_vars PROVE KeysSpent'
  OBVIOUS
<1>t. /\ phase \in [Media -> {"new", "waiting", "answered"} \cup Arriving]
      /\ store \in Stores /\ crashes \in Nat
  BY ConstantTypes DEF TypeOK, RequestType, CounterType
<1>1. ASSUME NEW u \in Uploads, NEW b \in Bodies, EnterUpload(u, b) PROVE KeysSpent'
  BY <1>1, <1>t, NoKeySpent, ConstantTypes DEF EnterUpload, Answer, counters
<1>2. ASSUME NEW u \in Uploads, GiveUpWaiting(u) PROVE KeysSpent'
  BY <1>2, <1>t, NoKeySpent, ConstantTypes DEF GiveUpWaiting, Answer, counters
<1>3. ASSUME NEW u \in Uploads, CancelUpload(u) PROVE KeysSpent'
  BY <1>3, <1>t, NoKeySpent, ConstantTypes DEF CancelUpload, Answer
<1>4. ASSUME NEW i \in Inbound, ReceiveInbound(i) \/ RejectInbound(i) PROVE KeysSpent'
  <2>1. store'.key = store.key
    BY <1>4, KeyIsKept
  <2>2. \A u \in Uploads : phase[u] = "recorded" => phase'[u] = "recorded"
    BY <1>4, <1>t, ConstantTypes DEF ReceiveInbound, RejectInbound, Answer
  <2> QED
    BY <1>4, <2>1, <2>2, NoKeySpent DEF ReceiveInbound, RejectInbound, counters
<1>5. ASSUME NEW p \in Pictures, FetchPicture(p) PROVE KeysSpent'
  BY <1>5, <1>t, NoKeySpent, ConstantTypes DEF FetchPicture
<1>6. ASSUME NEW m \in Media, Stage(m) \/ PutBytes(m) PROVE KeysSpent'
  BY <1>6, <1>t, NoKeySpent, ConstantTypes DEF Stage, PutBytes, Stored, counters
<1>7. ASSUME NEW m \in Media, Refuse(m) \/ PutFails(m) PROVE KeysSpent'
  <2>1. phase[m] # "recorded" /\ phase' = [phase EXCEPT ![m] = "answered"]
    BY <1>7 DEF Refuse, PutFails, Stored, Finish, Answer
  <2>2. UNCHANGED <<recorded, crashes, store>>
    BY <1>7 DEF Refuse, PutFails, counters
  <2> QED
    BY <1>t, <2>1, <2>2, NoKeySpent, ConstantTypes
<1>8. ASSUME NEW m \in Media, RecordMedia(m) PROVE KeysSpent'
  <2>1. /\ store'.key = store.key /\ crashes' = crashes
        /\ recorded' = recorded \cup ({m} \cap Uploads)
        /\ phase' = [phase EXCEPT ![m] = IF m \in Uploads THEN "recorded" ELSE "answered"]
    BY <1>8, KeyIsKept DEF RecordMedia, counters
  <2>2. CASE m \notin Uploads
    <3>1. recorded' = recorded
      BY <2>1, <2>2
    <3> QED
      BY <1>t, <2>1, <2>2, <3>1, NoKeySpent, ConstantTypes
  (* The owner of the entry: no other media was stored under the key since *)
  (* its record was last forgotten.                                        *)
  <2>3. CASE m \in Uploads
    <3>1. phase[m] = "put" /\ phase[m] \in Owning
      BY <1>8 DEF RecordMedia, Owning
    <3>2. store.key = NoMedia
      BY <2>3, <3>1 DEF OneOwner, OwnerHasNoKey
    <3>3. \A u \in Uploads : phase[u] # "recorded"
      BY <2>3, <3>1 DEF OneOwner, InflightHasOneOwner, Owning
    <3>4. IsFiniteSet(recorded) /\ Cardinality(recorded) <= crashes
      BY <3>2, <3>3 DEF KeysSpent
    <3>5. recorded' = recorded \cup {m}
      BY <2>1, <2>3
    <3>6. /\ IsFiniteSet(recorded') /\ Cardinality(recorded) \in Nat
          /\ Cardinality(recorded') <= Cardinality(recorded) + 1
      BY <3>4, <3>5, FS_AddElement, FS_CardinalityType
    <3>7. Cardinality(recorded') \in Nat
      BY <3>6, FS_CardinalityType
    <3>8. phase'[m] = "recorded"
      BY <1>t, <2>1, <2>3
    <3> QED
      BY <1>t, <2>1, <2>3, <3>4, <3>6, <3>7, <3>8 DEF KeysSpent
  <2> QED
    BY <2>2, <2>3
<1>9. ASSUME NEW u \in Uploads, RecordKey(u) PROVE KeysSpent'
  <2>1. store'.key # NoMedia
    BY <1>9, <1>t, MediaAssumption DEF RecordKey, Stores, NoMedia
  <2> QED
    BY <1>9, <2>1 DEF KeysSpent, RecordKey, counters
<1>10. CASE Crash
  <2>1. recorded' = recorded /\ crashes' = crashes + 1
    BY <1>10 DEF Crash
  <2>2. Cardinality(recorded) \in Nat
    BY FS_CardinalityType DEF KeysSpent
  <2> QED
    BY <1>t, <2>1, <2>2 DEF KeysSpent
<1>11. CASE UNCHANGED <<requests, crashes>> /\ store'.key = store.key
  BY <1>11, NoKeySpent DEF requests
<1>12. ASSUME NEW m \in Media, NEW e \in Entities, BeginSave(m, e) PROVE KeysSpent'
  BY <1>11, <1>12, KeyIsKept DEF BeginSave
<1>13. ASSUME CallerSteps PROVE KeysSpent'
  <2>1. UNCHANGED <<requests, crashes>>
    BY <1>13 DEF CallerSteps, CopyBytes, FinishSave, DeleteBytes, FinishDelete, SweepBytes,
       FinishSweep, counters
  <2>2. store'.key = store.key
    BY <1>13, KeyIsKept DEF CallerSteps, CopyBytes, DeleteBytes, SweepBytes
  <2> QED
    BY <1>11, <2>1, <2>2
<1>14. ASSUME NEW m, BeginDelete(m) PROVE KeysSpent'
  BY <1>11, <1>14 DEF BeginDelete
<1>15. ASSUME NEW M, NEW T, BeginSweep(M, T) PROVE KeysSpent'
  BY <1>11, <1>15 DEF BeginSweep
<1>16. CASE Persist
  BY <1>11, <1>16 DEF Persist, counters
<1>17. CASE UNCHANGED vars
  BY <1>11, <1>17 DEF vars, requests
<1> QED
  BY <1>1, <1>2, <1>3, <1>4, <1>5, <1>6, <1>7, <1>8, <1>9, <1>10, <1>12, <1>13, <1>14, <1>15,
     <1>16, <1>17, ConstantTypes
  DEF Next, UploadSteps, InboundSteps


-----------------------------------------------------------------------------
(* One media: what each step does to SoundView.                            *)

(* Phases without a record.                                                *)
Early == {"new", "waiting", "owner", "download", "staged", "put"}

(* Before its bytes are stored a media has nothing and nothing works on it. *)
LEMMA ViewNothing ==
    ASSUME NEW m, NEW ph, ph # "put"
    PROVE  SoundView(m, Absent, {}, ph, NotSaving, <<>>, {}, {})
  BY DEF SoundView, State, Shape, Whole, Keys, Held, Bare, Absent, Record

LEMMA ViewPut ==
    ASSUME NEW m PROVE SoundView(m, Absent, {"object"}, "put", NotSaving, <<>>, {}, {})
  BY DEF SoundView, Shape, Absent, Record

LEMMA ViewEarly ==
    ASSUME NEW m, NEW r, NEW K, NEW ph, NEW s, NEW d, NEW todo, NEW gone,
           SoundView(m, r, K, ph, s, d, todo, gone),
           ph \in {"new", "waiting", "owner", "download", "staged", "put"}
    PROVE  /\ r = Absent /\ s = NotSaving /\ d = <<>> /\ todo = {} /\ gone = {}
           /\ ph # "put" => K = {}
           /\ ph = "put" => K = {"object"}
  BY DEF SoundView

LEMMA ViewRecorded ==
    ASSUME NEW m, NEW r, NEW ph, ph \in {"recorded", "answered"},
           r = IF m \in Pictures THEN PictureRecord ELSE Temp
    PROVE  SoundView(m, r, {"object"}, ph, NotSaving, <<>>, {}, {})
  BY DEF SoundView, State, Shape, Whole, Keys, Held, Bare, Absent, Temp, PictureRecord, Record

LEMMA ViewRejected ==
    ASSUME NEW m, NEW ph, ph = "answered"
    PROVE  SoundView(m, Record("rejected", FALSE, "none"), {}, ph, NotSaving, <<>>, {}, {})
  BY DEF SoundView, State, Shape, Whole, Keys, Held, Bare, Absent, Record

LEMMA ViewAnswered ==
    ASSUME NEW m, NEW r, NEW K, NEW s, NEW d, NEW todo, NEW gone,
           SoundView(m, r, K, "recorded", s, d, todo, gone)
    PROVE  SoundView(m, r, K, "answered", s, d, todo, gone)
  BY DEF SoundView

(* With a record, the media is past its arrival.                           *)
LEMMA ViewOfRecord ==
    ASSUME NEW m, NEW r, NEW K, NEW ph, NEW s, NEW d, NEW todo, NEW gone, r # Absent
    PROVE  SoundView(m, r, K, ph, s, d, todo, gone) <=>
           Shape(m, r) /\ ph \notin Early /\ State(m, r, K, s, d, todo, gone)
  BY DEF SoundView, Early

(* The lists of keys a delete goes through.                                *)
LEMMA MarkLists ==
    ASSUME NEW p
    PROVE  /\ Len(<<"mark">>) = 1 /\ Len(<<p, "mark">>) = 2 /\ Len(<<"object", p, "mark">>) = 3
           /\ <<>> # <<"mark">> /\ <<p, "mark">> # <<>> /\ <<"object", p, "mark">> # <<>>
           /\ <<p, "mark">> # <<"mark">> /\ <<"object", p, "mark">> # <<"mark">>
           /\ Head(<<p, "mark">>) = p /\ Head(<<"object", p, "mark">>) = "object"
           /\ Tail(<<p, "mark">>) = <<"mark">>
           /\ Tail(<<"object", p, "mark">>) = <<p, "mark">>
  OBVIOUS

LEMMA LongerThanMark == ASSUME NEW d, Len(d) > 1 PROVE d # <<"mark">>
<1> SUFFICES ASSUME d = <<"mark">> PROVE FALSE
  OBVIOUS
<1>1. Len(d) = 1
  OBVIOUS
<1> QED
  BY <1>1

(* save_media of a media without bytes.                                    *)
LEMMA NoBytesNoRecord ==
    ASSUME NEW m, NEW r \in Records, NEW K, NEW e \in Entities, Whole(r, K), Shape(m, r),
           ~r.object
    PROVE  /\ Whole(Record("permanent", FALSE, e), K)
           /\ Shape(m, Record("permanent", FALSE, e)) /\ Record("permanent", FALSE, e) # Absent
  BY MediaAssumption DEF Whole, Shape, Keys, Held, Bare, Record, Absent

(* The copy fails, or is made.                                             *)
LEMMA Copied ==
    ASSUME NEW r \in Records, NEW K, NEW s, s[1] = "copy", Saving(r, K, s)
    PROVE  /\ Whole(r, K)
           /\ "object" \in K => Saving(r, K \cup {s[2]}, <<"copied", s[2]>>)
  BY DEF Saving, Whole, Keys, Held, Bare

(* The record names the copy; an object of an earlier save is no longer    *)
(* named, unless it is the same or the media's own.                        *)
LEMMA Saved ==
    ASSUME NEW m, NEW r \in Records, NEW K, NEW s, s[1] = "copied", s[2] \in Entities,
           Saving(r, K, s), r.permanent \notin Entities \ {s[2]}, Shape(m, r)
    PROVE  /\ Whole(Record("permanent", r.object, s[2]), K)
           /\ Shape(m, Record("permanent", r.object, s[2]))
           /\ Record("permanent", r.object, s[2]) # Absent
<1>1. r.permanent \in {"none", "object", s[2]} /\ r.object /\ s[2] \notin {"none", "object"}
  BY MediaAssumption DEF Records, Saving
<1>2. K \subseteq {"object", s[2]} /\ s[2] \in K
  BY <1>1 DEF Saving, Keys
<1> QED
  BY <1>1, <1>2 DEF Whole, Shape, Keys, Held, Bare, Record, Absent

(* A delete begins, is ended by an error, goes on, and is recorded.        *)
LEMMA RemoveBegins ==
    ASSUME NEW m, NEW r \in Records, NEW K, Whole(r, K)
    PROVE  Removing(m, r, K, KeysOf(r) \o <<"mark">>)
<1>1. r.object \in BOOLEAN
  BY RecordTypes
<1>2. (m \notin Pictures => Held(r, K)) /\ Bare(r, K) /\ K \subseteq Keys(r)
  BY DEF Whole
<1>3. CASE r.object /\ r.permanent # "none"
  <2>1. K \subseteq {"object", r.permanent}
    BY <1>2, <1>3 DEF Keys
  <2> QED
    BY <1>2, <1>3, <2>1, KeyLists DEF Removing
<1>4. CASE r.object /\ r.permanent = "none"
  <2>1. K \subseteq {"object"}
    BY <1>2, <1>4 DEF Keys
  <2> QED
    BY <1>2, <1>4, <2>1, KeyLists DEF Removing
<1>5. CASE ~r.object /\ r.permanent # "none"
  <2>1. K \subseteq {r.permanent}
    BY <1>2, <1>5 DEF Keys
  <2> QED
    BY <1>2, <1>5, <2>1, KeyLists DEF Removing
<1>6. CASE ~r.object /\ r.permanent = "none"
  <2>1. K = {}
    BY <1>2, <1>6 DEF Keys
  <2> QED
    BY <1>2, <1>6, <2>1, KeyLists DEF Removing
<1> QED
  BY <1>1, <1>3, <1>4, <1>5, <1>6

LEMMA RemoveFails ==
    ASSUME NEW m, NEW r \in Records, NEW K, NEW d, Len(d) > 1, Removing(m, r, K, d)
    PROVE  K \subseteq Keys(r) /\ Bare(r, K)
<1>1. r.object \in BOOLEAN
  BY RecordTypes
<1>2. d # <<"mark">>
  BY LongerThanMark
<1>3. Bare(r, K)
  BY DEF Removing
<1>4. \/ r.object /\ K \subseteq {"object"}
      \/ r.permanent # "none" /\ K \subseteq {r.permanent}
      \/ r.object /\ r.permanent # "none" /\ K \subseteq {"object", r.permanent}
  BY <1>2 DEF Removing
<1>5. K \subseteq Keys(r)
  BY <1>4 DEF Keys
<1> QED
  BY <1>3, <1>5

LEMMA RemoveGoesOn ==
    ASSUME NEW m, NEW r \in Records, Shape(m, r), NEW K, NEW d, Len(d) > 1,
           Removing(m, r, K, d)
    PROVE  Removing(m, r, K \ {Head(d)}, Tail(d))
<1>1. r.object \in BOOLEAN
  BY RecordTypes
<1>2. d # <<"mark">>
  BY LongerThanMark
<1>3. Bare(r, K \ {Head(d)})
  BY DEF Removing, Bare
<1>4. CASE d = <<"object", "mark">> /\ K \subseteq {"object"}
  <2>1. K \ {Head(d)} = {} /\ Tail(d) = <<"mark">>
    BY <1>4, MarkLists
  <2> QED
    BY <1>3, <2>1 DEF Removing
<1>5. CASE d = <<r.permanent, "mark">> /\ K \subseteq {r.permanent}
  <2>1. K \ {Head(d)} = {} /\ Tail(d) = <<"mark">>
    BY <1>5, MarkLists
  <2> QED
    BY <1>3, <2>1 DEF Removing
<1>6. CASE /\ d = <<"object", r.permanent, "mark">> /\ r.object /\ r.permanent # "none"
           /\ K \subseteq {"object", r.permanent} /\ (m \notin Pictures => Held(r, K))
  <2>1. Head(d) = "object" /\ Tail(d) = <<r.permanent, "mark">>
    BY <1>6, MarkLists
  <2>2. m \notin Pictures => Held(r, K \ {"object"})
    BY <1>6 DEF Shape, Held, Temp, Record
  <2>3. K \ {"object"} \subseteq {r.permanent}
    BY <1>6
  <2> QED
    BY <1>3, <1>6, <2>1, <2>2, <2>3 DEF Removing
<1> QED
  BY <1>2, <1>4, <1>5, <1>6 DEF Removing

LEMMA Removed ==
    ASSUME NEW m, NEW r \in Records, Shape(m, r), NEW K, Removing(m, r, K, <<"mark">>)
    PROVE  LET n == [r EXCEPT !.status = "deleted"]
           IN  K = {} /\ Whole(n, K) /\ Shape(m, n) /\ n # Absent
<1>1. K = {}
  BY MarkLists DEF Removing
<1> DEFINE n == [r EXCEPT !.status = "deleted"]
<1>2. n.status = "deleted" /\ n.object = r.object /\ n.permanent = r.permanent
  BY DEF Records
<1>3. n # Absent
  BY <1>2 DEF Absent, Record
<1> HIDE DEF n
<1>4. Whole(n, K) /\ Shape(m, n)
  BY <1>1, <1>2 DEF Whole, Shape, Held, Bare
<1> QED
  BY <1>1, <1>3, <1>4 DEF n

(* A delete ended badly, and the object the media is kept in is left.      *)
LEMMA BytesStay ==
    ASSUME NEW m, NEW r \in Records, Shape(m, r), NEW K, K \subseteq Keys(r), Bare(r, K),
           NEW L \in SUBSET K, BytesKey(r) \in L
    PROVE  Whole(r, L)
<1>1. Bare(r, L) /\ L \subseteq Keys(r)
  BY DEF Bare
<1>2. Held(r, L)
  <2>1. CASE r.object /\ r.status = "temp"
    BY <2>1 DEF Held, Shape, Temp, Record, BytesKey
  <2>2. CASE r.object /\ r.status = "permanent"
    BY <2>2 DEF Held, Shape, BytesKey
  <2> QED
    BY <2>1, <2>2 DEF Held
<1> QED
  BY <1>1, <1>2 DEF Whole

-----------------------------------------------------------------------------
(* The bytes, step by step.  A media is followed until a fault or an       *)
(* overlap exempts it.                                                     *)

LEMMA ExemptionsStay == [Next]_vars => raced \subseteq raced' /\ leaked \subseteq leaked'
<1> SUFFICES ASSUME [Next]_vars PROVE raced \subseteq raced' /\ leaked \subseteq leaked'
  OBVIOUS
<1>1. CASE UNCHANGED <<raced, leaked>>
  BY <1>1
<1>2. ASSUME NEW u, CancelUpload(u) \/ PutFails(u)
      PROVE  raced \subseteq raced' /\ leaked \subseteq leaked'
  BY <1>2 DEF CancelUpload, PutFails
<1>3. ASSUME NEW m, NEW e, BeginSave(m, e) PROVE raced \subseteq raced' /\ leaked \subseteq leaked'
  BY <1>3 DEF BeginSave
<1>4. ASSUME NEW m, CopyBytes(m) \/ FinishSave(m) \/ BeginDelete(m) \/ DeleteBytes(m)
      PROVE  raced \subseteq raced' /\ leaked \subseteq leaked'
  BY <1>4 DEF CopyBytes, FinishSave, BeginDelete, DeleteBytes, LeakIfGone
<1>5. ASSUME NEW M, NEW T, BeginSweep(M, T)
      PROVE  raced \subseteq raced' /\ leaked \subseteq leaked'
  BY <1>5 DEF BeginSweep
<1>6. ASSUME NEW c, SweepBytes(c) PROVE raced \subseteq raced' /\ leaked \subseteq leaked'
  BY <1>6 DEF SweepBytes, LeakIfGone
<1>7. CASE Crash
  BY <1>7 DEF Crash
<1> QED
  BY <1>1, <1>2, <1>3, <1>4, <1>5, <1>6, <1>7
  DEF Next, vars, UploadSteps, InboundSteps, CallerSteps, EnterUpload, GiveUpWaiting,
      ReceiveInbound, RejectInbound, FetchPicture, Stage, Refuse, PutBytes, RecordMedia,
      RecordKey, FinishDelete, FinishSweep, Persist

(* A step that leaves a media alone.                                       *)
LEMMA MediaUntouched ==
    ASSUME NEW m, Sound(m), store'.media[m] = store.media[m], Kept(m)' = Kept(m),
           phase'[m] = phase[m], save'[m] = save[m], remove'[m] = remove[m],
           ToSweep(m)' = ToSweep(m), Swept(m)' = Swept(m), m \in staging' => m \in staging
    PROVE  Sound(m)'
  BY DEF Sound

(* The requests and downloads.                                             *)
LEMMA RequestNextSound ==
    ASSUME TypeOK, NEW m \in Media, m \notin raced' \cup leaked', Sound(m),
           \/ \E u \in Uploads : UploadSteps(u) \/ GiveUpWaiting(u) \/ CancelUpload(u)
           \/ \E i \in Inbound : InboundSteps(i)
           \/ \E n \in Media : Refuse(n) \/ PutFails(n)
           \/ \E p \in Pictures : FetchPicture(p) \/ PutBytes(p) \/ RecordMedia(p)
    PROVE  Sound(m)'
<1>t. /\ phase \in [Media -> {"new", "waiting", "answered"} \cup Arriving]
      /\ store \in Stores /\ store.media \in [Media -> Records]
  BY StoreWrites DEF TypeOK, RequestType
<1>a. ASSUME NEW n \in Media, n # m, NEW p, phase' = [phase EXCEPT ![n] = p],
             UNCHANGED callers, store'.media[m] = store.media[m],
             objects' \in {objects, objects \cup {<<n, "object">>}},
             staging' \subseteq staging \cup {n}
      PROVE  Sound(m)'
  <2>1. Kept(m)' = Kept(m)
    BY <1>a DEF Kept
  <2>2. ToSweep(m)' = ToSweep(m) /\ Swept(m)' = Swept(m) /\ save' = save /\ remove' = remove
        /\ sweep' = sweep
    BY <1>a DEF ToSweep, Swept, callers
  <2>3. phase'[m] = phase[m]
    BY <1>a, <1>t
  <2> QED
    BY <1>a, <2>1, <2>2, <2>3, MediaUntouched
<1>b. ASSUME phase[m] \in Early, phase[m] # "put", NEW p, p # "put",
             phase' = [phase EXCEPT ![m] = p], UNCHANGED <<callers, objects>>,
             store'.media[m] = store.media[m], m \in staging' => p = "staged"
      PROVE  Sound(m)'
  <2>1. /\ store.media[m] = Absent /\ Kept(m) = {} /\ save[m] = NotSaving
        /\ remove[m] = <<>> /\ ToSweep(m) = {} /\ Swept(m) = {}
    BY <1>b, ViewEarly DEF Sound, Early
  <2>2. /\ Kept(m)' = {} /\ ToSweep(m)' = {} /\ Swept(m)' = Swept(m) /\ save' = save
        /\ remove' = remove
        /\ sweep' = sweep /\ phase'[m] = p
    BY <1>b, <1>t, <2>1 DEF Kept, ToSweep, Swept, callers
  <2> QED
    BY <1>b, <2>1, <2>2, ViewNothing DEF Sound
<1>c. phase[m] \notin {"staged", "put"} => m \notin staging
  BY DEF Sound
<1>1. ASSUME NEW u \in Uploads, NEW b \in Bodies, EnterUpload(u, b) PROVE Sound(m)'
  <2>1. PICK p : phase' = [phase EXCEPT ![u] = p] /\ p \in {"waiting", "owner", "answered"}
    BY <1>1 DEF EnterUpload, Answer
  <2>2. phase[u] \in {"new", "waiting"} /\ UNCHANGED <<store, callers, objects, staging>>
    BY <1>1 DEF EnterUpload
  <2> QED
    BY <1>a, <1>b, <1>c, <2>1, <2>2, ConstantTypes DEF Early
<1>2. ASSUME NEW u \in Uploads, GiveUpWaiting(u) PROVE Sound(m)'
  BY <1>2, <1>a, <1>b, <1>c, ConstantTypes DEF GiveUpWaiting, Answer, Early
<1>3. ASSUME NEW u \in Uploads, CancelUpload(u) PROVE Sound(m)'
  <2>1. u # m
    BY <1>3 DEF CancelUpload
  <2>2. objects' \in {objects, objects \cup {<<u, "object">>}}
    BY <1>3 DEF CancelUpload
  <2> QED
    BY <1>3, <1>a, <2>1, <2>2, ConstantTypes DEF CancelUpload, Answer
<1>4. ASSUME NEW i \in Inbound, ReceiveInbound(i) PROVE Sound(m)'
  <2>1. store'.media = store.media
    BY <1>4, <1>t DEF ReceiveInbound, Stores
  <2> QED
    BY <1>4, <1>a, <1>b, <1>c, <2>1, ConstantTypes DEF ReceiveInbound, Early
<1>5. ASSUME NEW i \in Inbound, RejectInbound(i) PROVE Sound(m)'
  <2>1. store'.media = [store.media EXCEPT ![i] = Record("rejected", FALSE, "none")]
    BY <1>5, <1>t DEF RejectInbound, Stores
  <2>2. CASE i # m
    <3>1. store'.media[m] = store.media[m]
      BY <1>t, <2>1, <2>2
    <3> QED
      BY <1>5, <1>a, <2>2, <3>1, ConstantTypes DEF RejectInbound, Answer
  <2>3. CASE i = m
    <3>1. /\ Kept(m) = {} /\ save[m] = NotSaving /\ remove[m] = <<>> /\ ToSweep(m) = {}
          /\ Swept(m) = {} /\ phase[m] = "download"
      BY <1>5, <2>3, ViewEarly DEF Sound, RejectInbound
    <3>2. /\ store'.media[m] = Record("rejected", FALSE, "none") /\ phase'[m] = "answered"
          /\ Kept(m)' = {} /\ ToSweep(m)' = {} /\ Swept(m)' = Swept(m) /\ save' = save
          /\ remove' = remove
          /\ sweep' = sweep /\ staging' = staging
      BY <1>5, <1>t, <2>1, <2>3, <3>1, ConstantTypes
      DEF RejectInbound, Answer, Kept, ToSweep, Swept, callers
    <3> QED
      BY <1>c, <3>1, <3>2, ViewRejected DEF Sound
  <2> QED
    BY <2>2, <2>3
<1>6. ASSUME NEW p \in Pictures, FetchPicture(p) PROVE Sound(m)'
  BY <1>6, <1>a, <1>b, <1>c, ConstantTypes DEF FetchPicture, Early
<1>7. ASSUME NEW n \in Media, Stage(n) PROVE Sound(m)'
  BY <1>7, <1>a, <1>b, ConstantTypes DEF Stage, Early
<1>8. ASSUME NEW n \in Media, Refuse(n) PROVE Sound(m)'
  <2>1. /\ phase[n] \in Early /\ phase[n] # "put" /\ phase' = [phase EXCEPT ![n] = "answered"]
        /\ UNCHANGED <<store, callers, objects>> /\ staging' = staging \ {n}
    BY <1>8 DEF Refuse, Finish, Answer, Early
  <2> QED
    BY <1>a, <1>b, <2>1
<1>9. ASSUME NEW n \in Media, PutFails(n) PROVE Sound(m)'
  <2>1. /\ phase[n] \in Early /\ phase[n] # "put" /\ phase' = [phase EXCEPT ![n] = "answered"]
        /\ UNCHANGED <<store, callers>> /\ staging' = staging \ {n}
        /\ objects' \in {objects, objects \cup {<<n, "object">>}}
    BY <1>9 DEF PutFails, Stored, Finish, Answer, Early
  <2>2. CASE n # m
    BY <1>a, <2>1, <2>2
  <2>3. CASE n = m
    <3>1. objects' = objects
      BY <1>9, <2>3 DEF PutFails
    <3> QED
      BY <1>b, <2>1, <2>3, <3>1
  <2> QED
    BY <2>2, <2>3
<1>10. ASSUME NEW n \in Media, PutBytes(n) PROVE Sound(m)'
  <2>1. CASE n # m
    BY <1>10, <1>a, <2>1 DEF PutBytes
  <2>2. CASE n = m
    <3>1. /\ store.media[m] = Absent /\ Kept(m) = {} /\ save[m] = NotSaving
          /\ remove[m] = <<>> /\ ToSweep(m) = {} /\ Swept(m) = {}
      BY <1>10, <2>2, ViewEarly DEF Sound, PutBytes, Stored
    <3>2. /\ phase'[m] = "put" /\ ToSweep(m)' = {} /\ Swept(m)' = Swept(m) /\ save' = save
          /\ remove' = remove
          /\ sweep' = sweep /\ store' = store
      BY <1>10, <1>t, <2>2, <3>1 DEF PutBytes, ToSweep, Swept, callers
    <3>3. Kept(m)' = {"object"}
      BY <1>10, <2>2, <3>1 DEF PutBytes, Kept, ObjectKeys
    <3> QED
      BY <3>1, <3>2, <3>3, ViewPut DEF Sound
  <2> QED
    BY <2>1, <2>2
<1>11. ASSUME NEW n \in Media, RecordMedia(n) PROVE Sound(m)'
  <2>1. store'.media = [store.media EXCEPT ![n] = IF n \in Pictures THEN PictureRecord ELSE Temp]
    BY <1>11, <1>t DEF RecordMedia, Stores
  <2>2. CASE n # m
    <3>1. store'.media[m] = store.media[m]
      BY <1>t, <2>1, <2>2
    <3> QED
      BY <1>11, <1>a, <2>2, <3>1 DEF RecordMedia
  <2>3. CASE n = m
    <3>1. /\ Kept(m) = {"object"} /\ save[m] = NotSaving /\ remove[m] = <<>>
          /\ ToSweep(m) = {} /\ Swept(m) = {}
      BY <1>11, <2>3, ViewEarly DEF Sound, RecordMedia
    <3>2. /\ store'.media[m] = IF m \in Pictures THEN PictureRecord ELSE Temp
          /\ phase'[m] \in {"recorded", "answered"} /\ m \notin staging'
      BY <1>11, <1>t, <2>1, <2>3 DEF RecordMedia
    <3>3. /\ Kept(m)' = {"object"} /\ ToSweep(m)' = {} /\ Swept(m)' = Swept(m) /\ save' = save
          /\ remove' = remove
          /\ sweep' = sweep
      BY <1>11, <3>1 DEF RecordMedia, Kept, ToSweep, Swept, callers
    <3>4. /\ save'[m] = NotSaving /\ remove'[m] = <<>> /\ ToSweep(m)' = {} /\ Swept(m)' = {}
          /\ Kept(m)' = {"object"}
      BY <3>1, <3>3
    <3>5. SoundView(m, store'.media[m], Kept(m)', phase'[m], save'[m], remove'[m],
                    ToSweep(m)', Swept(m)')
      BY <3>2, <3>4, ViewRecorded
    <3> QED
      BY <3>2, <3>5 DEF Sound
  <2> QED
    BY <2>2, <2>3
<1>12. ASSUME NEW u \in Uploads, RecordKey(u) PROVE Sound(m)'
  <2>1. /\ store'.media = store.media /\ phase[u] = "recorded"
        /\ phase' = [phase EXCEPT ![u] = "answered"]
        /\ UNCHANGED <<staging, objects, callers>>
    BY <1>12, <1>t DEF RecordKey, Finish, Answer, Stores
  <2>2. CASE u # m
    BY <1>a, <2>1, <2>2, ConstantTypes
  <2>3. CASE u = m
    <3>1. /\ Kept(m)' = Kept(m) /\ ToSweep(m)' = ToSweep(m) /\ Swept(m)' = Swept(m) /\ save' = save
          /\ remove' = remove /\ sweep' = sweep /\ phase'[m] = "answered"
      BY <1>t, <2>1, <2>3 DEF Kept, ToSweep, Swept, callers
    <3> QED
      BY <1>c, <2>1, <2>3, <3>1, ViewAnswered DEF Sound
  <2> QED
    BY <2>2, <2>3
<1> QED
  BY <1>1, <1>2, <1>3, <1>4, <1>5, <1>6, <1>7, <1>8, <1>9, <1>10, <1>11, <1>12, ConstantTypes
  DEF UploadSteps, InboundSteps

(* A media with a record goes from one State to another.                   *)
LEMMA RecordSound ==
    ASSUME NEW m, Sound(m), store.media[m] # Absent, UNCHANGED requests,
           store'.media[m] # Absent, Shape(m, store'.media[m]),
           State(m, store'.media[m], Kept(m)', save'[m], remove'[m], ToSweep(m)', Swept(m)')
    PROVE  Sound(m)'
<1>1. phase'[m] \notin Early /\ staging' = staging /\ phase' = phase
  BY ViewOfRecord DEF Sound, requests
<1>2. SoundView(m, store'.media[m], Kept(m)', phase'[m], save'[m], remove'[m],
                ToSweep(m)', Swept(m)')
  BY <1>1, ViewOfRecord
<1> QED
  BY <1>1, <1>2 DEF Sound

(* Saves, deletes and retention, the snapshot and the crash.               *)
LEMMA CallerNextSound ==
    ASSUME TypeOK, NEW m \in Media, m \notin raced' \cup leaked', Sound(m),
           \/ \E n \in Targets, e \in Entities : BeginSave(n, e)
           \/ \E n \in Targets : BeginDelete(n)
           \/ \E M \in SUBSET (Inbound \cap Targets), T \in SUBSET Targets : BeginSweep(M, T)
           \/ CallerSteps
           \/ Persist
           \/ Crash
    PROVE  Sound(m)'
<1>t. /\ store \in Stores /\ store.media \in [Media -> Records] /\ sweep \in Sweeps
      /\ save \in [Media -> Saves] /\ remove \in [Media -> Seq(ObjectKeys \cup {"mark"})]
      /\ phase \in [Media -> {"new", "waiting", "answered"} \cup Arriving]
  BY StoreWrites DEF TypeOK, CallerType, RequestType
<1>r. PICK r \in Records : r = store.media[m]
  BY <1>t
<1>v. r # Absent =>
         /\ Shape(m, r) /\ phase[m] \notin Early
         /\ State(m, r, Kept(m), save[m], remove[m], ToSweep(m), Swept(m))
  BY <1>r, ViewOfRecord DEF Sound
<1>w. r = Absent =>
         save[m] = NotSaving /\ remove[m] = <<>> /\ ToSweep(m) = {} /\ Swept(m) = {}
  BY <1>r DEF Sound, SoundView
<1>i. ~Busy(m) =>
         save[m] = NotSaving /\ remove[m] = <<>> /\ ToSweep(m) = {} /\ Swept(m) = {}
  BY DEF Busy, ToSweep, Swept
<1>a. ASSUME UNCHANGED <<requests, sweep>>, store'.media[m] = store.media[m],
             Kept(m)' = Kept(m), save'[m] = save[m], remove'[m] = remove[m]
      PROVE  Sound(m)'
  <2>1. ToSweep(m)' = ToSweep(m) /\ Swept(m)' = Swept(m)
    BY <1>a DEF ToSweep, Swept
  <2> QED
    BY <1>a, <2>1, MediaUntouched DEF requests
<1>1. ASSUME NEW n \in Media, NEW e \in Entities, BeginSave(n, e) PROVE Sound(m)'
  <2>1. /\ UNCHANGED <<requests, sweep, remove, objects>>
        /\ Kept(m)' = Kept(m) /\ ToSweep(m)' = ToSweep(m) /\ Swept(m)' = Swept(m)
    BY <1>1 DEF BeginSave, Kept, ToSweep, Swept
  <2>2. CASE n # m
    <3>1. store'.media[m] = store.media[m] /\ save'[m] = save[m]
      BY <1>1, <1>t, <2>2 DEF BeginSave, Stores
    <3> QED
      BY <1>a, <2>1, <3>1
  <2>3. CASE n = m
    <3>1. ~Busy(m) /\ r # Absent
      BY <1>1, <1>r, <2>3 DEF BeginSave
    <3>2. Whole(r, Kept(m)) /\ Shape(m, r)
      BY <1>v, <1>i, <3>1 DEF State
    <3>3. CASE r.object /\ save' = [save EXCEPT ![m] = <<"copy", e>>] /\ store' = store
      <4>1. save'[m] = <<"copy", e>> /\ <<"copy", e>> # NotSaving
        BY <1>t, <3>3 DEF NotSaving
      <4>2. Saving(r, Kept(m), <<"copy", e>>)
        BY <3>2, <3>3 DEF Saving
      <4>3. State(m, r, Kept(m), save'[m], remove'[m], ToSweep(m), Swept(m))
        BY <1>i, <2>1, <3>1, <4>1, <4>2 DEF State
      <4> QED
        BY <1>r, <2>1, <3>1, <3>2, <3>3, <4>3, RecordSound
    <3>4. CASE /\ ~r.object /\ save' = save
               /\ store' = [store EXCEPT !.media[m] = Record("permanent", FALSE, e)]
      <4>1. store'.media[m] = Record("permanent", FALSE, e)
        BY <1>t, <3>4 DEF Stores
      <4>2. /\ Whole(store'.media[m], Kept(m)) /\ Shape(m, store'.media[m])
            /\ store'.media[m] # Absent
        <5> DEFINE p == Record("permanent", FALSE, e)
        <5>1. Whole(p, Kept(m)) /\ Shape(m, p) /\ p # Absent
          BY <3>2, <3>4, NoBytesNoRecord
        <5> QED
          BY <4>1, <5>1
      <4>3. State(m, store'.media[m], Kept(m), save'[m], remove'[m], ToSweep(m), Swept(m))
        BY <1>i, <2>1, <3>1, <3>4, <4>2 DEF State
      <4> QED
        BY <1>r, <2>1, <3>1, <4>2, <4>3, RecordSound
    <3> QED
      BY <1>1, <1>r, <2>3, <3>3, <3>4 DEF BeginSave
  <2> QED
    BY <2>2, <2>3
<1>2. ASSUME NEW n \in Media, CopyBytes(n) PROVE Sound(m)'
  <2>1. /\ UNCHANGED <<requests, sweep, remove, store>>
        /\ ToSweep(m)' = ToSweep(m) /\ Swept(m)' = Swept(m)
    BY <1>2 DEF CopyBytes, ToSweep, Swept
  <2>2. CASE n # m
    <3>1. save'[m] = save[m] /\ Kept(m)' = Kept(m)
      BY <1>2, <1>t, <2>2 DEF CopyBytes, Kept
    <3> QED
      BY <1>a, <2>1, <3>1
  <2>3. CASE n = m
    <3>1. save[m] \in Saves /\ save[m][1] = "copy"
      BY <1>2, <1>t, <2>3 DEF CopyBytes
    <3>2. save[m] # NotSaving /\ save[m][2] \in Entities /\ r # Absent
      BY <1>w, <3>1, SaveTypes
    <3>3. /\ Saving(r, Kept(m), save[m]) /\ Shape(m, r)
          /\ remove[m] = <<>> /\ ToSweep(m) = {} /\ Swept(m) = {}
      BY <1>v, <3>2 DEF State
    <3>4. CASE save' = [save EXCEPT ![m] = NotSaving] /\ objects' = objects
      <4>1. save'[m] = NotSaving /\ Kept(m)' = Kept(m) /\ Whole(r, Kept(m))
        BY <1>t, <3>1, <3>3, <3>4, Copied DEF Kept
      <4>2. State(m, r, Kept(m)', save'[m], remove'[m], ToSweep(m)', Swept(m)')
        BY <2>1, <3>3, <4>1 DEF State
      <4> QED
        BY <1>r, <2>1, <3>2, <3>3, <4>2, RecordSound
    <3>5. CASE /\ <<m, "object">> \in objects /\ objects' = objects \cup {<<m, save[m][2]>>}
               /\ save' = [save EXCEPT ![m] = <<"copied", save[m][2]>>]
      <4>1. save'[m] = <<"copied", save[m][2]>> /\ save'[m] # NotSaving
        BY <1>t, <3>5 DEF NotSaving
      <4>2. Kept(m)' = Kept(m) \cup {save[m][2]} /\ "object" \in Kept(m)
        BY <3>2, <3>5 DEF Kept, ObjectKeys
      <4>3. Saving(r, Kept(m)', save'[m])
        BY <3>1, <3>3, <4>1, <4>2, Copied
      <4>4. State(m, r, Kept(m)', save'[m], remove'[m], ToSweep(m)', Swept(m)')
        BY <2>1, <3>3, <4>1, <4>3 DEF State
      <4> QED
        BY <1>r, <2>1, <3>2, <3>3, <4>4, RecordSound
    <3> QED
      BY <1>2, <2>3, <3>4, <3>5 DEF CopyBytes, Fault
  <2> QED
    BY <2>2, <2>3
<1>3. ASSUME NEW n \in Media, FinishSave(n) PROVE Sound(m)'
  <2>1. /\ UNCHANGED <<requests, sweep, remove, objects>>
        /\ Kept(m)' = Kept(m) /\ ToSweep(m)' = ToSweep(m) /\ Swept(m)' = Swept(m)
    BY <1>3 DEF FinishSave, Kept, ToSweep, Swept
  <2>2. CASE n # m
    <3>1. store'.media[m] = store.media[m] /\ save'[m] = save[m]
      BY <1>3, <1>t, <2>2 DEF FinishSave, Stores
    <3> QED
      BY <1>a, <2>1, <3>1
  <2>3. CASE n = m
    <3>1. save[m] \in Saves /\ save[m][1] = "copied" /\ save'[m] = NotSaving
      BY <1>3, <1>t, <2>3 DEF FinishSave
    <3>2. save[m] # NotSaving /\ save[m][2] \in Entities /\ r # Absent
      BY <1>w, <3>1, SaveTypes
    <3>3. /\ Saving(r, Kept(m), save[m]) /\ Shape(m, r)
          /\ remove[m] = <<>> /\ ToSweep(m) = {} /\ Swept(m) = {}
      BY <1>v, <3>2 DEF State
    <3>4. r.permanent \notin Entities \ {save[m][2]}
      BY <1>3, <1>r, <2>3 DEF FinishSave
    <3>5. store'.media[m] = Record("permanent", r.object, save[m][2])
      BY <1>3, <1>t, <1>r, <2>3, <3>2 DEF FinishSave, Stores
    <3>6. /\ Whole(store'.media[m], Kept(m)) /\ Shape(m, store'.media[m])
          /\ store'.media[m] # Absent
      BY <3>1, <3>2, <3>3, <3>4, <3>5, Saved
    <3>7. State(m, store'.media[m], Kept(m)', save'[m], remove'[m], ToSweep(m)', Swept(m)')
      BY <2>1, <3>1, <3>3, <3>6 DEF State
    <3> QED
      BY <1>r, <2>1, <3>2, <3>6, <3>7, RecordSound
  <2> QED
    BY <2>2, <2>3
<1>4. ASSUME NEW n \in Media, BeginDelete(n) PROVE Sound(m)'
  <2>1. /\ UNCHANGED <<requests, sweep, save, objects, store>>
        /\ Kept(m)' = Kept(m) /\ ToSweep(m)' = ToSweep(m) /\ Swept(m)' = Swept(m)
    BY <1>4 DEF BeginDelete, Kept, ToSweep, Swept
  <2>2. CASE n # m
    BY <1>4, <1>a, <1>t, <2>1, <2>2 DEF BeginDelete
  <2>3. CASE n = m
    <3>1. ~Busy(m) /\ r # Absent
      BY <1>4, <1>r, <2>3 DEF BeginDelete
    <3>2. Whole(r, Kept(m)) /\ Shape(m, r)
      BY <1>v, <1>i, <3>1 DEF State
    <3>3. remove'[m] = KeysOf(r) \o <<"mark">>
      BY <1>4, <1>t, <1>r, <2>3 DEF BeginDelete
    <3>4. Removing(m, r, Kept(m), remove'[m])
      BY <3>2, <3>3, RemoveBegins
    <3>5. remove'[m] # <<>>
      BY <3>4, MarkLists DEF Removing
    <3>6. State(m, r, Kept(m)', save'[m], remove'[m], ToSweep(m)', Swept(m)')
      BY <1>i, <2>1, <3>1, <3>4, <3>5 DEF State
    <3> QED
      BY <1>r, <2>1, <3>1, <3>2, <3>6, RecordSound
  <2> QED
    BY <2>2, <2>3
<1>5. ASSUME NEW n \in Media, DeleteBytes(n) PROVE Sound(m)'
  <2>1. /\ UNCHANGED <<requests, sweep, save, store>>
        /\ ToSweep(m)' = ToSweep(m) /\ Swept(m)' = Swept(m)
    BY <1>5 DEF DeleteBytes, ToSweep, Swept
  <2>2. CASE n # m
    <3>1. Kept(m)' = Kept(m) /\ remove'[m] = remove[m]
      BY <1>5, <1>t, <2>2 DEF DeleteBytes, Kept
    <3> QED
      BY <1>a, <2>1, <3>1
  <2>3. CASE n = m
    <3>1. Len(remove[m]) > 1
      BY <1>5, <2>3 DEF DeleteBytes
    <3>2. remove[m] # <<>> /\ r # Absent
      BY <1>w, <3>1
    <3>3. /\ Removing(m, r, Kept(m), remove[m]) /\ Shape(m, r)
          /\ save[m] = NotSaving /\ ToSweep(m) = {} /\ Swept(m) = {}
      BY <1>v, <3>2 DEF State
    <3>4. CASE /\ objects' = objects \ {<<m, Head(remove[m])>>}
               /\ remove' = [remove EXCEPT ![m] = Tail(@)]
      <4>1. remove'[m] = Tail(remove[m])
        BY <1>t, <3>4
      <4>2. Kept(m)' = Kept(m) \ {Head(remove[m])}
        BY <3>4 DEF Kept
      <4>3. Removing(m, r, Kept(m)', remove'[m])
        BY <3>1, <3>3, <4>1, <4>2, RemoveGoesOn
      <4>4. remove'[m] # <<>>
        BY <4>3, MarkLists DEF Removing
      <4>5. State(m, r, Kept(m)', save'[m], remove'[m], ToSweep(m)', Swept(m)')
        BY <2>1, <3>3, <4>3, <4>4 DEF State
      <4> QED
        BY <1>r, <2>1, <3>2, <3>3, <4>5, RecordSound
    <3>5. CASE /\ remove' = [remove EXCEPT ![m] = <<>>]
               /\ objects' \in {objects, objects \ {<<m, Head(remove[m])>>}}
               /\ LeakIfGone(m)
      <4>1. remove'[m] = <<>> /\ Kept(m)' \subseteq Kept(m)
        BY <1>t, <3>5 DEF Kept
      <4>2. <<m, BytesKey(r)>> \in objects'
        BY <1>r, <3>5 DEF LeakIfGone
      <4>3. BytesKey(r) \in Kept(m)'
        BY <4>2 DEF Kept, BytesKey, Records, ObjectKeys
      <4>4. Kept(m) \subseteq Keys(r) /\ Bare(r, Kept(m))
        BY <1>r, <3>1, <3>3, RemoveFails
      <4>5. Whole(r, Kept(m)')
        BY <1>r, <3>3, <4>1, <4>3, <4>4, BytesStay
      <4>6. State(m, r, Kept(m)', save'[m], remove'[m], ToSweep(m)', Swept(m)')
        BY <2>1, <3>3, <4>1, <4>5 DEF State
      <4> QED
        BY <1>r, <2>1, <3>2, <3>3, <4>6, RecordSound
    <3> QED
      BY <1>5, <2>3, <3>4, <3>5 DEF DeleteBytes
  <2> QED
    BY <2>2, <2>3
<1>6. ASSUME NEW n \in Media, FinishDelete(n) PROVE Sound(m)'
  <2>1. /\ UNCHANGED <<requests, sweep, save, objects>>
        /\ Kept(m)' = Kept(m) /\ ToSweep(m)' = ToSweep(m) /\ Swept(m)' = Swept(m)
    BY <1>6 DEF FinishDelete, Kept, ToSweep, Swept
  <2>2. CASE n # m
    <3>1. store'.media[m] = store.media[m] /\ remove'[m] = remove[m]
      BY <1>6, <1>t, <2>2 DEF FinishDelete, Stores
    <3> QED
      BY <1>a, <2>1, <3>1
  <2>3. CASE n = m
    <3>1. remove[m] = <<"mark">> /\ remove'[m] = <<>>
      BY <1>6, <1>t, <2>3 DEF FinishDelete
    <3>2. remove[m] # <<>> /\ r # Absent
      BY <1>w, <3>1
    <3>3. /\ Removing(m, r, Kept(m), <<"mark">>) /\ Shape(m, r)
          /\ save[m] = NotSaving /\ ToSweep(m) = {} /\ Swept(m) = {}
      BY <1>v, <3>1, <3>2 DEF State
    <3>4. store'.media[m] = [r EXCEPT !.status = "deleted"]
      BY <1>6, <1>t, <1>r, <2>3, <3>2 DEF FinishDelete, Stores
    <3>5. /\ Whole(store'.media[m], Kept(m)) /\ Shape(m, store'.media[m])
          /\ store'.media[m] # Absent
      BY <3>3, <3>4, Removed
    <3>6. State(m, store'.media[m], Kept(m)', save'[m], remove'[m], ToSweep(m)', Swept(m)')
      BY <2>1, <3>1, <3>3, <3>5 DEF State
    <3> QED
      BY <1>r, <2>1, <3>2, <3>5, <3>6, RecordSound
  <2> QED
    BY <2>2, <2>3
<1>7. ASSUME NEW M \in SUBSET (Inbound \cap Targets), NEW T \in SUBSET Targets,
             BeginSweep(M, T)
      PROVE  Sound(m)'
  <2>1. /\ UNCHANGED <<requests, objects, save, remove, store>> /\ Kept(m)' = Kept(m)
        /\ sweep = NotSweeping /\ ToSweep(m) = {} /\ Swept(m) = {}
    BY <1>7 DEF BeginSweep, Kept, ToSweep, Swept, NotSweeping
  <2>2. PICK C :
          /\ C = {n \in M \cup T : store.media[n] # Absent}
          /\ sweep' = [NotSweeping EXCEPT !.step = "bytes", !.messages = M,
                           !.todo = {<<n, store.media[n]>> : n \in C}]
          /\ raced' = raced \cup {n \in C : Busy(n)} \cup {n \in M : phase[n] \in Arriving}
    BY <1>7 DEF BeginSweep
  <2>3. /\ sweep'.todo = {<<n, store.media[n]>> : n \in C}
        /\ sweep'.deleted = {}
    BY <2>2 DEF NotSweeping
  <2>4. Swept(m)' = {}
    BY <2>3 DEF Swept
  <2>5. CASE m \notin C
    <3>1. ToSweep(m)' = {}
      BY <2>3, <2>5 DEF ToSweep
    <3> QED
      BY <2>1, <2>4, <3>1, MediaUntouched DEF requests
  <2>6. CASE m \in C
    <3>1. r # Absent /\ ~Busy(m)
      BY <1>r, <2>2, <2>6
    <3>2. Whole(r, Kept(m)) /\ Shape(m, r) /\ save[m] = NotSaving /\ remove[m] = <<>>
      BY <1>v, <1>i, <3>1 DEF State
    <3>3. ToSweep(m)' = {r}
      BY <1>r, <2>3, <2>6 DEF ToSweep
    <3>4. State(m, r, Kept(m)', save'[m], remove'[m], ToSweep(m)', Swept(m)')
      BY <2>1, <2>4, <3>2, <3>3 DEF State
    <3> QED
      BY <1>r, <2>1, <3>1, <3>2, <3>4, RecordSound
  <2> QED
    BY <2>5, <2>6
<1>8. ASSUME NEW c \in sweep.todo, SweepBytes(c) PROVE Sound(m)'
  <2>1. PICK n \in Media, rc \in Records : c = <<n, rc>>
    BY <1>t DEF Sweeps
  <2>2. UNCHANGED <<requests, save, remove, store>>
    BY <1>8 DEF SweepBytes
  <2>3. {<<n, k>> : k \in Range(KeysOf(rc))} = {<<n, k>> : k \in Keys(rc)}
    BY KeyLists
  <2>4. \/ /\ objects' = objects \ {<<n, k>> : k \in Keys(rc)}
           /\ sweep' = [sweep EXCEPT !.todo = @ \ {c}, !.deleted = @ \cup {n}]
        \/ /\ \E gone \in SUBSET {<<n, k>> : k \in Keys(rc)} : objects' = objects \ gone
           /\ LeakIfGone(n)
           /\ sweep' = [sweep EXCEPT !.todo = @ \ {c}, !.failed = @ \cup {n}]
    BY <1>8, <2>1, <2>3 DEF SweepBytes
  <2>5. CASE n # m
    <3>1. Kept(m)' = Kept(m)
      BY <2>4, <2>5 DEF Kept
    <3>2. ToSweep(m)' = ToSweep(m) /\ Swept(m)' = Swept(m)
      BY <1>t, <2>1, <2>4, <2>5 DEF ToSweep, Swept, Sweeps
    <3> QED
      BY <2>2, <3>1, <3>2, MediaUntouched DEF requests
  <2>6. CASE n = m
    <3>1. rc \in ToSweep(m)
      BY <2>1, <2>6 DEF ToSweep
    <3>2. r # Absent
      BY <1>w, <3>1
    <3>3. /\ ToSweep(m) = {r} /\ Whole(r, Kept(m)) /\ Shape(m, r) /\ Swept(m) = {}
          /\ save[m] = NotSaving /\ remove[m] = <<>>
      BY <1>v, <3>1, <3>2 DEF State
    <3>4. rc = r
      BY <3>1, <3>3
    <3>5. sweep'.todo = sweep.todo \ {<<m, r>>}
      BY <1>t, <2>1, <2>4, <2>6, <3>4 DEF Sweeps
    <3>6. ToSweep(m)' = {}
      BY <3>3, <3>5 DEF ToSweep
    <3>7. CASE /\ objects' = objects \ {<<n, k>> : k \in Keys(rc)}
               /\ sweep' = [sweep EXCEPT !.todo = @ \ {c}, !.deleted = @ \cup {n}]
      <4>1. m \in sweep'.deleted
        BY <1>t, <2>6, <3>7 DEF Sweeps
      <4>2. Swept(m)' # {}
        BY <4>1 DEF Swept
      <4>3. Kept(m)' = {}
        BY <2>6, <3>3, <3>4, <3>7 DEF Kept, Whole
      <4>4. State(m, r, Kept(m)', save'[m], remove'[m], ToSweep(m)', Swept(m)')
        BY <2>2, <3>3, <3>6, <4>2, <4>3 DEF State
      <4> QED
        BY <1>r, <2>2, <3>2, <3>3, <4>4, RecordSound
    <3>8. ASSUME NEW gone \in SUBSET {<<n, k>> : k \in Keys(rc)}, objects' = objects \ gone,
                 LeakIfGone(n),
                 sweep' = [sweep EXCEPT !.todo = @ \ {c}, !.failed = @ \cup {n}]
          PROVE  Sound(m)'
      <4>1. sweep'.deleted = sweep.deleted
        BY <1>t, <3>8 DEF Sweeps
      <4>2. Swept(m)' = {}
        BY <3>3, <4>1 DEF Swept
      <4>3. Kept(m)' \subseteq Kept(m)
        BY <3>8 DEF Kept
      <4>4. <<m, BytesKey(r)>> \in objects'
        BY <1>r, <2>6, <3>8 DEF LeakIfGone
      <4>5. BytesKey(r) \in Kept(m)'
        BY <4>4 DEF Kept, BytesKey, Records, ObjectKeys
      <4>6. Whole(r, Kept(m)')
        BY <1>r, <3>3, <4>3, <4>5, BytesStay DEF Whole
      <4>7. State(m, r, Kept(m)', save'[m], remove'[m], ToSweep(m)', Swept(m)')
        BY <2>2, <3>3, <3>6, <4>2, <4>6 DEF State
      <4> QED
        BY <1>r, <2>2, <3>2, <3>3, <4>7, RecordSound
    <3> QED
      BY <2>4, <3>7, <3>8
  <2> QED
    BY <2>5, <2>6
<1>9. CASE FinishSweep
  <2>1. /\ UNCHANGED <<requests, objects, save, remove>> /\ Kept(m)' = Kept(m)
        /\ ToSweep(m) = {} /\ ToSweep(m)' = {} /\ Swept(m)' = {}
    BY <1>9 DEF FinishSweep, Kept, ToSweep, Swept, NotSweeping
  <2>2. store'.media[m] = IF m \in sweep.deleted THEN Absent ELSE store.media[m]
    BY <1>9, <1>t DEF FinishSweep, Stores
  <2>3. CASE m \notin sweep.deleted
    <3>1. Swept(m) = {}
      BY <2>3 DEF Swept
    <3> QED
      BY <2>1, <2>2, <2>3, <3>1, MediaUntouched DEF requests
  <2>4. CASE m \in sweep.deleted
    <3>1. Swept(m) # {}
      BY <2>4 DEF Swept
    <3>2. r # Absent
      BY <1>w, <3>1
    <3>3. /\ Kept(m) = {} /\ save[m] = NotSaving /\ remove[m] = <<>>
          /\ phase[m] \notin Early
      BY <1>v, <3>1, <3>2 DEF State
    <3> QED
      BY <2>1, <2>2, <2>4, <3>3, ViewNothing DEF Sound, requests, Early
  <2> QED
    BY <2>3, <2>4
<1>10. CASE Persist
  BY <1>10, <1>a DEF Persist, callers, Kept
<1>11. CASE Crash
  <2>1. /\ phase[m] \notin Arriving /\ ~Busy(m) /\ store.media[m] = snapshot.media[m]
    BY <1>11 DEF Crash
  <2>2. store'.media = snapshot.media
    BY <1>11 DEF Crash, Loaded, TypeOK, Stores
  <2>3. /\ save'[m] = NotSaving /\ remove'[m] = <<>> /\ Kept(m)' = Kept(m)
        /\ ToSweep(m)' = {} /\ Swept(m)' = {} /\ phase'[m] \in {"new", "answered"}
        /\ staging' = staging /\ (phase'[m] = "new" => phase[m] = "new")
    BY <1>11 DEF Crash, Kept, ToSweep, Swept, NotSweeping
  <2>4. m \notin staging'
    BY <2>1, <2>3 DEF Sound, Arriving, Owning
  <2>5. CASE r = Absent
    <3>1. Kept(m) = {}
      BY <1>r, <2>1, <2>5 DEF Sound, SoundView, State, Whole, Keys, Absent, Record, Arriving,
         Owning, Saving, Removing
    <3> QED
      BY <1>r, <2>1, <2>2, <2>3, <2>4, <2>5, <3>1, ViewNothing DEF Sound
  <2>6. CASE r # Absent
    <3>1. Shape(m, r) /\ phase[m] \notin Early /\ Whole(r, Kept(m))
      BY <1>v, <1>i, <2>1, <2>6 DEF State
    <3>2. phase'[m] = "answered"
      BY <2>3, <3>1 DEF Early
    <3>3. State(m, r, Kept(m)', save'[m], remove'[m], ToSweep(m)', Swept(m)')
      BY <2>3, <3>1 DEF State
    <3>4. SoundView(m, store'.media[m], Kept(m)', phase'[m], save'[m], remove'[m],
                    ToSweep(m)', Swept(m)')
      BY <1>r, <2>1, <2>2, <2>6, <3>1, <3>2, <3>3, ViewOfRecord DEF Early
    <3> QED
      BY <2>4, <3>4 DEF Sound
  <2> QED
    BY <2>5, <2>6
<1> QED
  BY <1>1, <1>2, <1>3, <1>4, <1>5, <1>6, <1>7, <1>8, <1>9, <1>10, <1>11, ConstantTypes
  DEF CallerSteps

-----------------------------------------------------------------------------
(* Messages and the retention run.                                         *)

(* A step after which the message and its media stand as before.           *)
LEMMA MessageUntouched ==
    ASSUME NEW i, MessageSound(i), i \in store'.messages <=> i \in store.messages,
           store'.media[i] = Absent <=> store.media[i] = Absent,
           phase'[i] = phase[i], sweep' = sweep
    PROVE  MessageSound(i)'
  BY DEF MessageSound, ToSweep

(* A step of the download of a message's media.                            *)
LEMMA DownloadGoesOn ==
    ASSUME NEW i, MessageSound(i), phase[i] \notin {"new", "answered"}, phase'[i] # "new",
           store'.messages = store.messages, sweep' = sweep
    PROVE  MessageSound(i)'
  BY DEF MessageSound

LEMMA RequestNextMessage ==
    ASSUME TypeOK, NEW i \in Inbound, MessageSound(i),
           \/ \E u \in Uploads : UploadSteps(u) \/ GiveUpWaiting(u) \/ CancelUpload(u)
           \/ \E n \in Inbound : InboundSteps(n)
           \/ \E n \in Media : Refuse(n) \/ PutFails(n)
           \/ \E p \in Pictures : FetchPicture(p) \/ PutBytes(p) \/ RecordMedia(p)
    PROVE  MessageSound(i)'
<1>t. /\ phase \in [Media -> {"new", "waiting", "answered"} \cup Arriving]
      /\ store \in Stores /\ store.media \in [Media -> Records] /\ i \in Media
  BY StoreWrites DEF TypeOK, RequestType, Media
<1>d. i \notin Uploads /\ i \notin Pictures
  BY MediaAssumption
<1>a. ASSUME NEW n \in Media, n # i, NEW p, phase' = [phase EXCEPT ![n] = p], sweep' = sweep,
             store'.media[i] = store.media[i],
             i \in store'.messages <=> i \in store.messages
      PROVE  MessageSound(i)'
  <2>1. phase'[i] = phase[i]
    BY <1>a, <1>t
  <2> QED
    BY <1>a, <2>1, MessageUntouched
<1>b. ASSUME phase[i] \notin {"new", "answered"}, NEW p, phase' = [phase EXCEPT ![i] = p],
             p # "new", store'.messages = store.messages, sweep' = sweep
      PROVE  MessageSound(i)'
  <2>1. phase'[i] # "new"
    BY <1>b, <1>t
  <2> QED
    BY <1>b, <2>1, DownloadGoesOn
<1>1. ASSUME NEW u \in Uploads, NEW b \in Bodies, EnterUpload(u, b) PROVE MessageSound(i)'
  BY <1>1, <1>a, <1>d DEF EnterUpload, Answer, callers, Media
<1>2. ASSUME NEW u \in Uploads, GiveUpWaiting(u) \/ CancelUpload(u) PROVE MessageSound(i)'
  BY <1>2, <1>a, <1>d DEF GiveUpWaiting, CancelUpload, Answer, callers, Media
<1>3. ASSUME NEW u \in Uploads, RecordKey(u) PROVE MessageSound(i)'
  <2>1. store'.media = store.media /\ store'.messages = store.messages
    BY <1>3, <1>t DEF RecordKey, Stores
  <2> QED
    BY <1>3, <1>a, <1>d, <2>1 DEF RecordKey, Finish, Answer, callers, Media
<1>4. ASSUME NEW n \in Inbound, ReceiveInbound(n) PROVE MessageSound(i)'
  <2>1. store'.media = store.media /\ store'.messages = store.messages \cup {n}
    BY <1>4, <1>t DEF ReceiveInbound, Stores
  <2>2. sweep' = sweep
    BY <1>4 DEF ReceiveInbound, callers
  <2>3. CASE n # i
    BY <1>4, <1>a, <2>1, <2>2, <2>3 DEF ReceiveInbound, Media
  <2>4. CASE n = i
    <3>1. phase[i] = "new" /\ phase'[i] = "download"
      BY <1>4, <1>t, <2>4 DEF ReceiveInbound
    <3> QED
      BY <2>1, <2>2, <2>4, <3>1 DEF MessageSound
  <2> QED
    BY <2>3, <2>4
<1>5. ASSUME NEW n \in Inbound, RejectInbound(n) PROVE MessageSound(i)'
  <2>1. /\ store'.messages = store.messages /\ n \in Media
        /\ n # i => store'.media[i] = store.media[i]
    BY <1>5, <1>t DEF RejectInbound, Stores, Media
  <2> QED
    BY <1>5, <1>a, <1>b, <2>1 DEF RejectInbound, Answer, callers
<1>6. ASSUME NEW n \in Media, RecordMedia(n) PROVE MessageSound(i)'
  <2>1. store'.messages = store.messages /\ (n # i => store'.media[i] = store.media[i])
    BY <1>6, <1>t DEF RecordMedia, Stores
  <2>2. CASE n # i
    BY <1>6, <1>a, <2>1, <2>2 DEF RecordMedia, callers
  <2>3. CASE n = i
    <3>1. phase' = [phase EXCEPT ![i] = "answered"] /\ phase[i] = "put" /\ sweep' = sweep
      BY <1>6, <1>d, <2>3 DEF RecordMedia, callers
    <3> QED
      BY <1>b, <2>1, <3>1
  <2> QED
    BY <2>2, <2>3
<1>7. ASSUME NEW n \in Media, Stage(n) PROVE MessageSound(i)'
  <2>1. /\ phase[n] \notin {"new", "answered"} /\ phase' = [phase EXCEPT ![n] = "staged"]
        /\ store' = store /\ sweep' = sweep
    BY <1>7 DEF Stage, callers
  <2> QED
    BY <1>a, <1>b, <2>1
<1>8. ASSUME NEW n \in Media, PutBytes(n) PROVE MessageSound(i)'
  <2>1. /\ phase[n] \notin {"new", "answered"} /\ phase' = [phase EXCEPT ![n] = "put"]
        /\ store' = store /\ sweep' = sweep
    BY <1>8 DEF PutBytes, Stored, callers
  <2> QED
    BY <1>a, <1>b, <2>1
<1>9. ASSUME NEW n \in Media, Refuse(n) \/ PutFails(n) PROVE MessageSound(i)'
  <2>1. /\ phase[n] \notin {"new", "answered"} /\ phase' = [phase EXCEPT ![n] = "answered"]
        /\ store' = store /\ sweep' = sweep
    BY <1>9 DEF Refuse, PutFails, Stored, Finish, Answer, callers
  <2> QED
    BY <1>a, <1>b, <2>1
<1>10. ASSUME NEW p \in Pictures, FetchPicture(p) PROVE MessageSound(i)'
  BY <1>10, <1>a, <1>d DEF FetchPicture, callers, Media
<1> QED
  BY <1>1, <1>2, <1>3, <1>4, <1>5, <1>6, <1>7, <1>8, <1>9, <1>10
  DEF UploadSteps, InboundSteps, Media

(* Saves and deletes change a record but never make or remove one; only    *)
(* retention removes a message, and with it what it found of its media.    *)
LEMMA CallerNextMessage ==
    ASSUME TypeOK, PhasesFit, NEW i \in Inbound, i \notin raced' \cup leaked', MessageSound(i),
           \/ \E n \in Targets, e \in Entities : BeginSave(n, e)
           \/ \E n \in Targets : BeginDelete(n)
           \/ \E M \in SUBSET (Inbound \cap Targets), T \in SUBSET Targets : BeginSweep(M, T)
           \/ CallerSteps
           \/ Persist
           \/ Crash
    PROVE  MessageSound(i)'
<1>t. /\ store \in Stores /\ store.media \in [Media -> Records] /\ sweep \in Sweeps
      /\ phase \in [Media -> {"new", "waiting", "answered"} \cup Arriving] /\ i \in Media
  BY StoreWrites DEF TypeOK, CallerType, RequestType, Media
<1>a. ASSUME UNCHANGED <<requests, sweep>>, store'.messages = store.messages,
             store'.media[i] = Absent <=> store.media[i] = Absent
      PROVE  MessageSound(i)'
  BY <1>a, MessageUntouched DEF requests
<1>1. ASSUME NEW n \in Media, NEW e \in Entities, BeginSave(n, e) PROVE MessageSound(i)'
  <2>1. /\ store.media[n] # Absent /\ UNCHANGED <<requests, sweep>>
        /\ \/ store' = store
           \/ store' = [store EXCEPT !.media[n] = Record("permanent", FALSE, e)]
    BY <1>1 DEF BeginSave
  <2>2. Record("permanent", FALSE, e) # Absent
    BY DEF Record, Absent
  <2> QED
    BY <1>a, <1>t, <2>1, <2>2 DEF Stores
<1>2. ASSUME NEW n \in Media, CopyBytes(n) \/ BeginDelete(n) \/ DeleteBytes(n)
      PROVE  MessageSound(i)'
  BY <1>2, <1>a DEF CopyBytes, BeginDelete, DeleteBytes
<1>3. ASSUME NEW n \in Media, FinishSave(n) PROVE MessageSound(i)'
  <2>1. /\ UNCHANGED <<requests, sweep>>
        /\ \/ store' = store
           \/ /\ store.media[n] # Absent
              /\ store' = [store EXCEPT !.media[n] =
                              Record("permanent", store.media[n].object, save[n][2])]
    BY <1>3, <1>t DEF FinishSave, Stores
  <2>2. Record("permanent", store.media[n].object, save[n][2]) # Absent
    BY DEF Record, Absent
  <2> QED
    BY <1>a, <1>t, <2>1, <2>2 DEF Stores
<1>4. ASSUME NEW n \in Media, FinishDelete(n) PROVE MessageSound(i)'
  <2>1. /\ UNCHANGED <<requests, sweep>>
        /\ \/ store' = store
           \/ /\ store.media[n] # Absent
              /\ store' = [store EXCEPT !.media[n].status = "deleted"]
    BY <1>4 DEF FinishDelete
  <2>2. CASE store' = store
    BY <1>a, <2>1, <2>2
  <2>3. CASE /\ store.media[n] # Absent
             /\ store' = [store EXCEPT !.media[n].status = "deleted"]
    <3>1. /\ store'.messages = store.messages
          /\ n # i => store'.media[i] = store.media[i]
          /\ store'.media[n].status = "deleted"
      BY <1>t, <2>3 DEF Stores, Records
    <3>2. store'.media[n] # Absent
      BY <3>1 DEF Absent, Record
    <3> QED
      BY <1>a, <2>1, <2>3, <3>1, <3>2
  <2> QED
    BY <2>1, <2>2, <2>3
<1>5. ASSUME NEW M \in SUBSET (Inbound \cap Targets), NEW T \in SUBSET Targets,
             BeginSweep(M, T)
      PROVE  MessageSound(i)'
  <2>1. /\ store' = store /\ phase' = phase /\ sweep'.messages = M /\ M \subseteq store.messages
        /\ sweep'.todo = {<<n, store.media[n]>> : n \in {j \in M \cup T : store.media[j] # Absent}}
    BY <1>5 DEF BeginSweep, requests, NotSweeping
  <2>2. ASSUME i \in M
        PROVE  /\ phase[i] = "answered"
               /\ store.media[i] = Absent \/ ToSweep(i)' # {}
    <3>1. phase[i] \notin Arriving
      BY <1>5, <2>2 DEF BeginSweep
    <3>2. phase[i] \in {"new", "download", "staged", "put", "answered"} /\ phase[i] # "new"
      BY <2>1, <2>2, MediaAssumption DEF PhasesFit, Media, MessageSound
    <3>3. ASSUME store.media[i] # Absent PROVE store.media[i] \in ToSweep(i)'
      BY <1>t, <2>1, <2>2, <3>3 DEF ToSweep
    <3> QED
      BY <3>1, <3>2, <3>3 DEF Arriving, Owning
  <2> QED
    BY <2>1, <2>2 DEF MessageSound
<1>6. ASSUME NEW c \in sweep.todo, SweepBytes(c) PROVE MessageSound(i)'
  <2>1. /\ store' = store /\ phase' = phase /\ sweep'.messages = sweep.messages
        /\ sweep'.todo = sweep.todo \ {c}
        /\ sweep.failed \subseteq sweep'.failed /\ sweep.deleted \subseteq sweep'.deleted
        /\ c[1] \in sweep'.failed \cup sweep'.deleted
    <3>1. /\ store' = store /\ phase' = phase
          /\ \/ sweep' = [sweep EXCEPT !.todo = @ \ {c}, !.deleted = @ \cup {c[1]}]
             \/ sweep' = [sweep EXCEPT !.todo = @ \ {c}, !.failed = @ \cup {c[1]}]
      BY <1>6 DEF SweepBytes, requests
    <3> QED
      BY <1>t, <3>1 DEF Sweeps
  <2>2. c[1] # i => ToSweep(i)' = ToSweep(i)
    BY <2>1 DEF ToSweep
  <2> QED
    BY <2>1, <2>2 DEF MessageSound
<1>7. CASE FinishSweep
  <2>1. /\ phase' = phase /\ sweep'.messages = {} /\ ToSweep(i) = {}
        /\ store'.media[i] = IF i \in sweep.deleted THEN Absent ELSE store.media[i]
        /\ store'.messages = store.messages \ (sweep.messages \ sweep.failed)
    BY <1>7, <1>t DEF FinishSweep, requests, NotSweeping, ToSweep, Stores
  <2> QED
    BY <2>1 DEF MessageSound
<1>8. CASE Persist
  BY <1>8, <1>a DEF Persist, callers
<1>9. CASE Crash
  <2>1. /\ phase[i] \notin Arriving /\ store.media[i] = snapshot.media[i]
        /\ i \in store.messages <=> i \in snapshot.messages
    BY <1>9, <1>t DEF Crash
  <2>2. store'.media = snapshot.media /\ store'.messages = snapshot.messages
    BY <1>9 DEF Crash, Loaded, TypeOK, Stores
  <2>3. /\ sweep'.messages = {}
        /\ phase'[i] = IF phase[i] = "new" THEN "new" ELSE "answered"
    BY <1>9, <1>t DEF Crash, NotSweeping
  <2> QED
    BY <2>1, <2>2, <2>3 DEF MessageSound
<1> QED
  BY <1>1, <1>2, <1>3, <1>4, <1>5, <1>6, <1>7, <1>8, <1>9, ConstantTypes DEF CallerSteps

-----------------------------------------------------------------------------
(* The invariant.                                                          *)

LEMMA InitInvariant == Init => IInv
<1> SUFFICES ASSUME Init PROVE IInv
  OBVIOUS
<1>1. TypeOK
  BY InitType
<1>2. OneOwner
  BY DEF Init, OneOwner, InflightHasOneOwner, PhasesFit, OwnerHasNoKey, Media, Owning
<1>3. KeysSpent
  BY FS_EmptySet DEF Init, KeysSpent
<1>4. ASSUME NEW m \in Media PROVE Sound(m)
  <2>1. /\ Kept(m) = {} /\ ToSweep(m) = {} /\ Swept(m) = {} /\ m \notin staging
        /\ store.media[m] = Absent /\ phase[m] = "new" /\ save[m] = NotSaving
        /\ remove[m] = <<>>
    BY <1>4 DEF Init, Kept, ToSweep, Swept, NotSweeping
  <2> QED
    BY <2>1, ViewNothing DEF Sound
<1>5. ASSUME NEW i \in Inbound PROVE MessageSound(i)
  BY <1>5 DEF Init, MessageSound, Media, NotSweeping
<1> QED
  BY <1>1, <1>2, <1>3, <1>4, <1>5 DEF IInv, BytesSound

LEMMA NextInvariant == IInv /\ [Next]_vars => IInv'
<1> SUFFICES ASSUME IInv, [Next]_vars PROVE IInv'
  OBVIOUS
<1>1. TypeOK' /\ OneOwner' /\ KeysSpent'
  BY NextType, OwnerNext, KeysNext DEF IInv
<1>2. raced \subseteq raced' /\ leaked \subseteq leaked'
  BY ExemptionsStay
<1>3. CASE UNCHANGED vars
  BY <1>1, <1>3 DEF IInv, BytesSound, Sound, MessageSound, Kept, ToSweep, Swept, vars
<1>4. CASE Next
  <2>1. ASSUME NEW m \in Media, m \notin raced' \cup leaked' PROVE Sound(m)'
    <3>1. TypeOK /\ Sound(m)
      BY <1>2, <2>1 DEF IInv, BytesSound
    <3> QED
      BY <1>4, <2>1, <3>1, RequestNextSound, CallerNextSound DEF Next
  <2>2. ASSUME NEW i \in Inbound, i \notin raced' \cup leaked' PROVE MessageSound(i)'
    <3>1. TypeOK /\ PhasesFit /\ MessageSound(i)
      BY <1>2, <2>2 DEF IInv, BytesSound, OneOwner
    <3> QED
      BY <1>4, <2>2, <3>1, RequestNextMessage, CallerNextMessage DEF Next
  <2> QED
    BY <1>1, <2>1, <2>2 DEF IInv, BytesSound
<1> QED
  BY <1>3, <1>4

LEMMA Invariance == Spec => []IInv
  BY InitInvariant, NextInvariant, PTL DEF Spec

(* The in-flight entry of upload_outbound_media_idempotent belongs to      *)
(* exactly one upload at a time and is released on every path, the drop    *)
(* guard of a cancelled request and a restart included.                    *)
THEOREM InflightIsOwnedByOne == Spec => []InflightHasOneOwner
<1>1. IInv => InflightHasOneOwner
  BY DEF IInv, OneOwner
<1> QED
  BY Invariance, <1>1, PTL

(* One Idempotency-Key stores one media, however many requests overlap     *)
(* under it; each crash can cost the key's record once, and then one more  *)
(* media can be stored.                                                    *)
THEOREM KeysAreSpentOncePerCrash == Spec => []KeyStoresOneMedia
<1>1. IInv => KeyStoresOneMedia
  BY DEF IInv, KeysSpent, KeyStoresOneMedia
<1> QED
  BY Invariance, <1>1, PTL

(* save_media, delete_media and the retention worker keep the promise of a *)
(* record that says temp or permanent: its bytes are in the object store,  *)
(* unless calls overlapped on it, a crash set it apart from its bytes, or  *)
(* a delete that failed or was dropped had already taken them.             *)
THEOREM RecordsKeepTheirBytes == Spec => []RecordHasBytes
<1>1. ASSUME IInv PROVE RecordHasBytes
  <2> SUFFICES ASSUME NEW m \in Media \ (raced \cup leaked), ~Busy(m), store.media[m].object
               PROVE  /\ store.media[m].status = "temp" => <<m, "object">> \in objects
                      /\ store.media[m].status = "permanent"
                           => <<m, store.media[m].permanent>> \in objects
    BY DEF RecordHasBytes
  <2>1. Sound(m)
    BY <1>1 DEF IInv, BytesSound
  <2>2. store.media[m] # Absent
    BY DEF Absent, Record
  <2>3. /\ State(m, store.media[m], Kept(m), save[m], remove[m], ToSweep(m), Swept(m))
        /\ save[m] = NotSaving /\ remove[m] = <<>> /\ ToSweep(m) = {} /\ Swept(m) = {}
    BY <2>1, <2>2, ViewOfRecord DEF Sound, Busy, ToSweep, Swept
  <2>4. Held(store.media[m], Kept(m))
    BY <2>3 DEF State, Whole
  <2> QED
    BY <2>4 DEF Held, Kept
<1> QED
  BY Invariance, <1>1, PTL

(* Nothing is left in staging or in the object store for a media that was  *)
(* refused, rejected, deleted or removed by retention.                     *)
THEOREM BytesAreCleanedUp == Spec => []NoBytesLeftBehind
<1>1. ASSUME IInv PROVE NoBytesLeftBehind
  <2> SUFFICES ASSUME NEW m \in Media \ (raced \cup leaked), phase[m] \notin Arriving
               PROVE  /\ m \notin staging
                      /\ (/\ ~Busy(m)
                          /\ store.media[m].status \in {"absent", "deleted", "rejected"})
                           => Objects(m) = {}
    BY DEF NoBytesLeftBehind
  <2>1. Sound(m) /\ objects \subseteq Media \X ObjectKeys
    BY <1>1 DEF IInv, BytesSound, TypeOK
  <2>2. m \notin staging
    BY <2>1 DEF Sound, Arriving, Owning
  <2>3. ASSUME ~Busy(m), store.media[m].status \in {"absent", "deleted", "rejected"}
        PROVE  Kept(m) = {}
    <3>1. Shape(m, store.media[m])
      BY <2>1 DEF Sound, SoundView
    <3>2. /\ State(m, store.media[m], Kept(m), save[m], remove[m], ToSweep(m), Swept(m))
          /\ save[m] = NotSaving /\ remove[m] = <<>> /\ ToSweep(m) = {} /\ Swept(m) = {}
      BY <2>1, <2>3 DEF Sound, SoundView, Busy, ToSweep, Swept, Arriving, Owning
    <3>3. Bare(store.media[m], Kept(m))
      BY <3>2 DEF State, Whole
    <3> QED
      BY <2>3, <3>1, <3>3 DEF Bare, Shape, Absent, Record
  <2>4. ASSUME Kept(m) = {} PROVE Objects(m) = {}
    BY <2>1, <2>4 DEF Kept, Objects
  <2> QED
    BY <2>2, <2>3, <2>4
<1> QED
  BY Invariance, <1>1, PTL

(* apply_company_retention removes a message only when record and bytes of *)
(* its media are gone; a media it could not delete keeps its message.      *)
THEOREM RetentionTakesTheMedia == Spec => []RemovedMessageLeavesNoMedia
<1>1. ASSUME IInv PROVE RemovedMessageLeavesNoMedia
  <2> SUFFICES ASSUME NEW i \in Inbound \ (raced \cup leaked), i \notin store.messages
               PROVE  store.media[i] = Absent /\ Objects(i) = {}
    BY DEF RemovedMessageLeavesNoMedia
  <2>1. Sound(i) /\ MessageSound(i) /\ objects \subseteq Media \X ObjectKeys
    BY <1>1 DEF IInv, BytesSound, TypeOK, Media
  <2>2. store.media[i] = Absent /\ phase[i] \in {"new", "answered"}
    BY <2>1 DEF MessageSound
  <2>3. Whole(Absent, Kept(i))
    BY <2>1, <2>2 DEF Sound, SoundView, State
  <2>4. Kept(i) = {}
    BY <2>3 DEF Whole, Bare, Absent, Record
  <2> QED
    BY <2>1, <2>2, <2>4 DEF Kept, Objects
<1> QED
  BY Invariance, <1>1, PTL
=============================================================================
