------------------------- MODULE StoredRecordsProofs -------------------------
(***************************************************************************)
(* Proofs about the records of the store: ContactProfiles, for any sets of *)
(* names and subjects and any bounds, and, in the second half, the         *)
(* numbers of messages in RelationalMirror, for any bounds.                *)
(*                                                                         *)
(* ErasedStaysErased only speaks of a person all of whose ids were erased. *)
(* A request reaches the ids one by one, so the invariant says what is     *)
(* clean already: what belongs to the ids erased so far.  It needs that    *)
(* every conversation belongs to an id with a record, that a lookup begun  *)
(* after the erase carries no name, and, for the restart, that all this    *)
(* holds in the snapshot as well, for the erase as far as it had come.     *)
(***************************************************************************)
EXTENDS ContactProfiles, RelationalMirror, TLAPS

Pushes == Names \cup {NoName}
Alts == Jids \cup {Absent}
Profiles == [resolved : Alts, lid : Alts]
Chats == [owner : Jids, name : Shown]
Messages == [from : Alts, chat : Addresses \cup {GroupJid}, push : Pushes, alt : Alts,
             shown : Shown]

IsContacts(cs) == DOMAIN cs \subseteq Jids /\ cs \in [DOMAIN cs -> Record]

CleanRecords(cs, S) ==
    \A j \in DOMAIN cs \cap S : cs[j].name \notin Names /\ cs[j].push = NoName

(* Every conversation belongs to an id with a record, and nothing of the   *)
(* ids erased so far shows a name or would bring one back.                 *)
StoreOK(cs, ch, ms, er) ==
    /\ IsContacts(cs)
    /\ DOMAIN ch \subseteq Jids /\ ch \in [DOMAIN ch -> Chats]
    /\ ms \subseteq Messages
    /\ \A k \in DOMAIN ch : ch[k].owner \in DOMAIN cs
    /\ er \subseteq DOMAIN cs
    /\ CleanRecords(cs, er)
    /\ \A k \in DOMAIN ch : ch[k].owner \in er => ch[k].name \notin Names
    /\ \A m \in ms : m.from \in er => m.shown \notin Names

(* The parts of StoreOK for the store itself.                              *)
StoreType ==
    /\ IsContacts(contacts)
    /\ DOMAIN chats \subseteq Jids /\ chats \in [DOMAIN chats -> Chats]
    /\ messages \subseteq Messages

Owned == \A k \in DOMAIN chats : chats[k].owner \in DOMAIN contacts

ErasedIsClean ==
    /\ erased \subseteq DOMAIN contacts
    /\ CleanRecords(contacts, erased)
    /\ \A k \in DOMAIN chats : chats[k].owner \in erased => chats[k].name \notin Names
    /\ \A m \in messages : m.from \in erased => m.shown \notin Names

(* A lookup begun after the erase carries no name.                         *)
LookupsClean ==
    \A l \in lookups : /\ l.jid \in Jids /\ l.push \in Pushes /\ l.alt \in Alts
                       /\ l.clean => l.push = NoName

IInv == StoreType /\ Owned /\ LookupsClean /\ ErasedIsClean

SnapshotOK ==
    StoreOK(snapshot.contacts, snapshot.chats, snapshot.messages, snapshot.erased)

-----------------------------------------------------------------------------
(* The helpers that write contact records.                                 *)

(* upsert_contact_inner.                                                   *)
LEMMA UpsertKeeps ==
    ASSUME NEW cs, IsContacts(cs), NEW j \in Jids, NEW n \in Pushes
    PROVE  LET us == UpsertContact(cs, j, n) IN
           /\ IsContacts(us) /\ DOMAIN us = DOMAIN cs \cup {j}
           /\ (n = NoName /\ CleanRecords(cs, Jids)) => CleanRecords(us, Jids)
<1> DEFINE old == IF j \in DOMAIN cs THEN cs[j]
                  ELSE [name |-> DisplayNameForJid(j), push |-> NoName,
                        canonical |-> IF IsLid(j) THEN Absent ELSE j,
                        lid |-> IF IsLid(j) THEN j ELSE Absent]
           new == IF n = NoName THEN old ELSE [old EXCEPT !.name = n, !.push = n]
           us == UpsertContact(cs, j, n)
<1>1. old \in Record
  BY DEF IsContacts, Record, Shown, DisplayNameForJid
<1>2. new \in Record
  BY <1>1 DEF Record, Shown, Pushes
<1>3. us = [x \in DOMAIN cs \cup {j} |-> IF x = j THEN new ELSE cs[x]]
  BY DEF UpsertContact, Insert
<1>4. IsContacts(us) /\ DOMAIN us = DOMAIN cs \cup {j}
  <2> HIDE DEF new, us
  <2> QED
    BY <1>2, <1>3 DEF IsContacts
<1>5. ASSUME n = NoName, CleanRecords(cs, Jids) PROVE CleanRecords(us, Jids)
  <2>1. old.name \notin Names /\ old.push = NoName
    BY <1>5, NamesAssumption DEF CleanRecords, DisplayNameForJid, Jids
  <2>2. new = old
    BY <1>5
  <2> HIDE DEF new, old, us
  <2> QED
    BY <1>3, <1>5, <2>1, <2>2 DEF CleanRecords
<1> QED
  BY <1>4, <1>5

(* enrich_contact_inner.                                                   *)
LEMMA Enrich ==
    ASSUME NEW cs, IsContacts(cs), NEW j \in Jids, NEW n \in Pushes, NEW p \in Profiles
    PROVE  LET es == EnrichContact(cs, j, n, p) IN
           /\ IsContacts(es) /\ DOMAIN cs \cup {j} \subseteq DOMAIN es
           /\ (n = NoName /\ CleanRecords(cs, Jids)) => CleanRecords(es, Jids)
<1> DEFINE r0 == UpsertContact(cs, j, n)[j]
           canonical == IF p.resolved # Absent /\ ~IsLid(p.resolved) THEN p.resolved
                        ELSE IF IsLid(j) THEN Absent ELSE j
           nameless == n = NoName /\ r0.name = DisplayNameForJid(j)
           r == [name |-> IF nameless /\ canonical = Phone THEN "number" ELSE r0.name,
                 push |-> r0.push, canonical |-> canonical,
                 lid |-> IF p.lid = Absent /\ IsLid(j) THEN j ELSE p.lid]
           D == {j} \cup LinkedIds(r)
           es == EnrichContact(cs, j, n, p)
<1>0. PICK us : /\ us = UpsertContact(cs, j, n) /\ IsContacts(us) /\ j \in DOMAIN us
                /\ (n = NoName /\ CleanRecords(cs, Jids)) => CleanRecords(us, Jids)
  BY UpsertKeeps
<1>1. r0 \in Record
  BY <1>0 DEF IsContacts
<1>2. r \in Record
  <2>1. canonical \in Alts /\ (IF p.lid = Absent /\ IsLid(j) THEN j ELSE p.lid) \in Alts
    BY DEF Profiles, Alts
  <2>2. r0.push \in Pushes /\ r0.name \in Shown /\ "number" \in Shown
    BY <1>1 DEF Record, Shown, Pushes
  <2> HIDE DEF r0, canonical
  <2> QED
    BY <2>1, <2>2 DEF Record, Pushes, Alts
<1>3. es = [x \in DOMAIN cs \cup D |-> IF x \in D THEN r ELSE cs[x]]
  BY DEF EnrichContact
<1>4. j \in D /\ D \subseteq Jids
  <2> HIDE DEF r
  <2> QED
    BY <1>2 DEF LinkedIds, Record
<1>5. IsContacts(es) /\ DOMAIN es = DOMAIN cs \cup D
  <2> HIDE DEF r, D, es
  <2> QED
    BY <1>2, <1>3, <1>4 DEF IsContacts
<1>6. ASSUME n = NoName, CleanRecords(cs, Jids) PROVE CleanRecords(es, Jids)
  <2>1. r0.name \notin Names /\ r0.push = NoName
    BY <1>0, <1>6 DEF CleanRecords
  <2>2. r.name \notin Names /\ r.push = NoName
    BY <2>1, NamesAssumption
  <2> HIDE DEF r0, r, D, es
  <2> QED
    BY <1>3, <1>4, <1>6, <2>2 DEF CleanRecords
<1> QED
  BY <1>4, <1>5, <1>6

(* contact_profile_from_alt.                                               *)
LEMMA AltProfile ==
    ASSUME NEW j \in Jids, NEW a \in Alts PROVE ProfileFromAlt(j, a) \in Profiles
  BY DEF ProfileFromAlt, Profiles, Alts, Jids, Addresses, Phone, IsLid, Absent, Lid

(* upsert_contact_with_alt_inner.                                          *)
LEMMA UpsertWithAlt ==
    ASSUME NEW cs, IsContacts(cs), NEW j \in Jids, NEW n \in Pushes, NEW a \in Alts
    PROVE  LET us == UpsertContactWithAlt(cs, j, n, a) IN
           /\ IsContacts(us) /\ DOMAIN cs \cup {j} \subseteq DOMAIN us
           /\ (n = NoName /\ CleanRecords(cs, Jids)) => CleanRecords(us, Jids)
  BY UpsertKeeps, Enrich, AltProfile DEF UpsertContactWithAlt

-----------------------------------------------------------------------------
(* The erase.                                                              *)

(* Once every id was reached, nothing of those ids shows a name.           *)
LEMMA AllClean ==
    ASSUME Owned, ErasedIsClean, AllErased
    PROVE  /\ CleanRecords(contacts, Jids)
           /\ \A k \in DOMAIN chats : chats[k].name \notin Names
           /\ \A m \in messages : m.from \in DOMAIN contacts => m.shown \notin Names
  BY DEF Owned, ErasedIsClean, AllErased, CleanRecords

(* A write that makes the erase start again, or one into a store without   *)
(* names that brings none and gives no sender of messages its first record.*)
LEMMA AfterWrite ==
    ASSUME IInv, NEW brings \in BOOLEAN, EraseAfterWrite(brings), IsContacts(contacts'),
           AllErased /\ ~brings =>
              /\ CleanRecords(contacts', Jids)
              /\ \A k \in DOMAIN chats' : chats'[k].name \notin Names
              /\ \A x \in messages' : \/ x.shown \notin Names
                                     \/ \E m \in messages : x.from = m.from /\ x.shown = m.shown
    PROVE  ErasedIsClean'
<1>1. CASE erased' = {}
  BY <1>1 DEF ErasedIsClean, CleanRecords
<1>2. CASE erased' # {}
  <2>1. AllErased /\ ~brings /\ ~LateRecord /\ erased' = DOMAIN contacts'
    BY <1>2 DEF EraseAfterWrite
  <2>2. \A m \in messages : m.from \in DOMAIN contacts => m.shown \notin Names
    BY <2>1, AllClean DEF IInv
  <2>3. \A m \in messages : m.from \in DOMAIN contacts' => m.from \in DOMAIN contacts
    BY <2>1 DEF LateRecord
  <2>4. \A x \in messages' : x.from \in DOMAIN contacts' => x.shown \notin Names
    BY <2>1, <2>2, <2>3
  <2> QED
    BY <2>1, <2>4 DEF ErasedIsClean, CleanRecords, IsContacts
<1> QED
  BY <1>1, <1>2

(* spawn_contact_enrichment.                                               *)
LEMMA Spawned ==
    ASSUME LookupsClean, NEW j \in Jids, NEW n \in Pushes, NEW alt \in Alts, NEW chat,
           SpawnContactEnrichment(j, n, alt, chat)
    PROVE  LookupsClean'
<1>1. CASE lookups' = lookups
  BY <1>1 DEF LookupsClean
<1>2. CASE lookups' # lookups
  <2> DEFINE l == [id |-> NewId, jid |-> j, alt |-> alt, chat |-> chat, push |-> n,
                   api |-> FALSE, clean |-> AllErased /\ n = NoName]
  <2>1. lookups' = lookups \cup {l}
    BY <1>2 DEF SpawnContactEnrichment
  <2>2. l.jid = j /\ l.push = n /\ l.alt = alt /\ (l.clean => n = NoName)
    OBVIOUS
  <2> HIDE DEF l
  <2> QED
    BY <2>1, <2>2 DEF LookupsClean
<1> QED
  BY <1>1, <1>2

LEMMA InitInvariant == Init => IInv /\ SnapshotOK
<1> SUFFICES ASSUME Init PROVE IInv /\ SnapshotOK
  OBVIOUS
<1>1. DOMAIN contacts = {} /\ DOMAIN chats = {} /\ contacts \in [{} -> Record]
      /\ chats \in [{} -> Chats] /\ messages = {} /\ erased = {} /\ lookups = {}
  BY DEF Init
<1>2. /\ snapshot.contacts = contacts /\ snapshot.chats = chats
      /\ snapshot.messages = messages /\ snapshot.erased = erased
  BY DEF Init, StoreNow
<1> QED
  BY <1>1, <1>2 DEF IInv, StoreType, IsContacts, Owned, LookupsClean, ErasedIsClean,
     CleanRecords, SnapshotOK, StoreOK

(* The conversation after a message of address j.                          *)
LEMMA ChatWritten ==
    ASSUME IInv, NEW j \in Jids, NEW name \in Shown, chats' = ChatAfter(j, name),
           DOMAIN contacts \cup {j} \subseteq DOMAIN contacts'
    PROVE  /\ DOMAIN chats' \subseteq Jids /\ chats' \in [DOMAIN chats' -> Chats]
           /\ Owned'
           /\ \A k \in DOMAIN chats' : \/ chats'[k].name = name
                                       \/ k \in DOMAIN chats /\ chats'[k].name = chats[k].name
<1>1. PICK v : v = [owner |-> IF j \in DOMAIN chats THEN chats[j].owner ELSE j,
                    name |-> name]
  OBVIOUS
<1>2. chats' = Insert(chats, j, v)
  BY <1>1 DEF ChatAfter
<1>3. v \in Chats /\ v.owner \in DOMAIN contacts' /\ v.name = name
  BY <1>1 DEF Chats, IInv, StoreType, Owned
<1>4. /\ DOMAIN chats' = DOMAIN chats \cup {j} /\ chats'[j] = v
      /\ \A k \in DOMAIN chats : k # j => chats'[k] = chats[k]
      /\ chats' \in [DOMAIN chats \cup {j} -> Chats]
  <2>1. chats \in [DOMAIN chats -> Chats]
    BY DEF IInv, StoreType
  <2> QED
    BY <1>2, <1>3, <2>1 DEF Insert
<1> QED
  BY <1>3, <1>4 DEF IInv, StoreType, Owned

(* A message in the person's conversation.                                 *)
LEMMA DirectMessageKeeps ==
    ASSUME IInv, NEW j \in Addresses, NEW s \in Alts, NEW n \in Pushes, NEW alt \in Alts,
           DirectMessage(j, s, n, alt)
    PROVE  IInv'
<1>0. j \in Jids
  BY DEF Jids
<1>1. PICK cs : /\ cs = UpsertContactWithAlt(contacts, j, n, alt) /\ IsContacts(cs)
                /\ DOMAIN contacts \cup {j} \subseteq DOMAIN cs
                /\ (n = NoName /\ CleanRecords(contacts, Jids)) => CleanRecords(cs, Jids)
  BY <1>0, UpsertWithAlt DEF IInv, StoreType
<1>2. PICK m : m = [from |-> s, chat |-> j, push |-> n, alt |-> alt, shown |-> cs[j].name]
  OBVIOUS
<1>3. /\ contacts' = cs /\ chats' = ChatAfter(j, cs[j].name)
      /\ messages' \subseteq messages \cup {m}
      /\ SpawnContactEnrichment(j, n, alt, j) /\ EraseAfterWrite(n # NoName)
  BY <1>1, <1>2 DEF DirectMessage
<1>4. cs[j] \in Record /\ cs[j].name \in Shown
  BY <1>1 DEF IsContacts, Record
<1>5. m \in Messages /\ m.shown = cs[j].name
  BY <1>2, <1>4 DEF Messages
<1>6. /\ DOMAIN chats' \subseteq Jids /\ chats' \in [DOMAIN chats' -> Chats] /\ Owned'
      /\ \A k \in DOMAIN chats' : \/ chats'[k].name = cs[j].name
                                  \/ k \in DOMAIN chats /\ chats'[k].name = chats[k].name
  BY <1>0, <1>1, <1>3, <1>4, ChatWritten
<1>7. StoreType'
  BY <1>1, <1>3, <1>5, <1>6 DEF IInv, StoreType
<1>8. LookupsClean'
  BY <1>0, <1>3, Spawned DEF IInv
<1>9. ASSUME AllErased, n = NoName
      PROVE  /\ CleanRecords(contacts', Jids)
             /\ \A k \in DOMAIN chats' : chats'[k].name \notin Names
             /\ \A x \in messages' : x.shown \notin Names \/ x \in messages
  <2>1. CleanRecords(contacts, Jids) /\ \A k \in DOMAIN chats : chats[k].name \notin Names
    BY <1>9, AllClean DEF IInv
  <2>2. CleanRecords(cs, Jids) /\ cs[j].name \notin Names
    BY <1>0, <1>1, <1>9, <2>1 DEF CleanRecords
  <2> QED
    BY <1>3, <1>5, <1>6, <2>1, <2>2
<1>10. ErasedIsClean'
  BY <1>1, <1>3, <1>9, AfterWrite
<1> QED
  BY <1>6, <1>7, <1>8, <1>10 DEF IInv

(* An API request to send.                                                 *)
LEMMA SendKeeps ==
    ASSUME IInv, NEW j \in Addresses, PrepareSendMessage(j)
    PROVE  IInv'
<1>0. j \in Jids /\ NoName \in Pushes /\ Absent \in Alts
  BY DEF Jids, Pushes, Alts
<1>1. PICK cs : /\ cs = UpsertContact(contacts, j, NoName) /\ IsContacts(cs)
                /\ DOMAIN contacts \cup {j} = DOMAIN cs
                /\ CleanRecords(contacts, Jids) => CleanRecords(cs, Jids)
  BY <1>0, UpsertKeeps DEF IInv, StoreType
<1>2. PICK m : m = [from |-> Absent, chat |-> j, push |-> NoName, alt |-> Absent,
                    shown |-> cs[j].name]
  OBVIOUS
<1>3. /\ contacts' = cs /\ chats' = ChatAfter(j, cs[j].name)
      /\ messages' = messages \cup {m} /\ lookups' = lookups /\ EraseAfterWrite(FALSE)
  BY <1>1, <1>2 DEF PrepareSendMessage
<1>4. cs[j] \in Record /\ cs[j].name \in Shown
  BY <1>1 DEF IsContacts, Record
<1>5. m \in Messages /\ m.shown = cs[j].name
  BY <1>0, <1>2, <1>4 DEF Messages
<1>6. /\ DOMAIN chats' \subseteq Jids /\ chats' \in [DOMAIN chats' -> Chats] /\ Owned'
      /\ \A k \in DOMAIN chats' : \/ chats'[k].name = cs[j].name
                                  \/ k \in DOMAIN chats /\ chats'[k].name = chats[k].name
  BY <1>0, <1>1, <1>3, <1>4, ChatWritten
<1>7. StoreType' /\ LookupsClean'
  BY <1>1, <1>3, <1>5, <1>6 DEF IInv, StoreType, LookupsClean
<1>8. ASSUME AllErased
      PROVE  /\ CleanRecords(contacts', Jids)
             /\ \A k \in DOMAIN chats' : chats'[k].name \notin Names
             /\ \A x \in messages' : x.shown \notin Names \/ x \in messages
  <2>1. CleanRecords(contacts, Jids) /\ \A k \in DOMAIN chats : chats[k].name \notin Names
    BY <1>8, AllClean DEF IInv
  <2>2. CleanRecords(cs, Jids) /\ cs[j].name \notin Names
    BY <1>0, <1>1, <2>1 DEF CleanRecords
  <2> QED
    BY <1>3, <1>5, <1>6, <2>1, <2>2
<1>9. ErasedIsClean'
  BY <1>1, <1>3, <1>8, AfterWrite
<1> QED
  BY <1>6, <1>7, <1>9 DEF IInv

(* A message in the group.                                                 *)
LEMMA GroupMessageKeeps ==
    ASSUME IInv, NEW j \in Jids, NEW n \in Pushes, NEW alt \in Alts, GroupMessage(j, n, alt)
    PROVE  IInv'
<1>1. PICK cs : /\ cs = UpsertContactWithAlt(contacts, j, n, alt) /\ IsContacts(cs)
                /\ DOMAIN contacts \cup {j} \subseteq DOMAIN cs
                /\ (n = NoName /\ CleanRecords(contacts, Jids)) => CleanRecords(cs, Jids)
  BY UpsertWithAlt DEF IInv, StoreType
<1>2. PICK m : m = [from |-> j, chat |-> GroupJid, push |-> n, alt |-> alt,
                    shown |-> cs[j].name]
  OBVIOUS
<1>3. /\ contacts' = cs /\ chats' = chats /\ messages' = messages \cup {m}
      /\ SpawnContactEnrichment(j, n, alt, GroupJid) /\ EraseAfterWrite(n # NoName)
  BY <1>1, <1>2 DEF GroupMessage
<1>4. m \in Messages /\ m.shown = cs[j].name
  BY <1>1, <1>2 DEF Messages, IsContacts, Record, Alts
<1>5. StoreType' /\ Owned'
  BY <1>1, <1>3, <1>4 DEF IInv, StoreType, Owned
<1>6. LookupsClean'
  BY <1>3, Spawned DEF IInv
<1>7. ASSUME AllErased, n = NoName
      PROVE  /\ CleanRecords(contacts', Jids)
             /\ \A k \in DOMAIN chats' : chats'[k].name \notin Names
             /\ \A x \in messages' : x.shown \notin Names \/ x \in messages
  <2>1. CleanRecords(contacts, Jids) /\ \A k \in DOMAIN chats : chats[k].name \notin Names
    BY <1>7, AllClean DEF IInv
  <2>2. CleanRecords(cs, Jids) /\ cs[j].name \notin Names
    BY <1>1, <1>7, <2>1 DEF CleanRecords
  <2> QED
    BY <1>3, <1>4, <2>1, <2>2
<1>8. ErasedIsClean'
  BY <1>1, <1>3, <1>7, AfterWrite
<1> QED
  BY <1>5, <1>6, <1>8 DEF IInv

(* apply_contact_profile, with what the lookup captured.                   *)
LEMMA ProfileKeeps ==
    ASSUME IInv, NEW l \in lookups, NEW p \in Profiles, ApplyContactProfile(l, p),
           lookups' = lookups \ {l}
    PROVE  IInv'
<1>1. l.jid \in Jids /\ l.push \in Pushes /\ (l.clean => l.push = NoName)
  BY DEF IInv, LookupsClean
<1>2. PICK cs : /\ cs = EnrichContact(contacts, l.jid, l.push, p) /\ IsContacts(cs)
                /\ DOMAIN contacts \cup {l.jid} \subseteq DOMAIN cs
                /\ (l.push = NoName /\ CleanRecords(contacts, Jids)) => CleanRecords(cs, Jids)
  BY <1>1, Enrich DEF IInv, StoreType
<1>3. PICK r : r = cs[l.jid]
  OBVIOUS
<1>4. PICK A : A = Aliases(r, l.jid) \cup ({p.resolved} \ {Absent})
  OBVIOUS
<1>5. /\ contacts' = cs /\ chats' = ApplyToConversations(l, A, r.name)
      /\ messages' = ShowName(A, r.name)
      /\ EraseAfterWrite(l.push # NoName /\ ~l.clean)
  BY <1>2, <1>3, <1>4 DEF ApplyContactProfile
<1>6. r \in Record /\ r.name \in Shown
  BY <1>2, <1>3 DEF IsContacts, Record
<1>7. /\ DOMAIN chats' = DOMAIN chats
      /\ \A k \in DOMAIN chats :
            chats'[k] = chats[k] \/ chats'[k] = [owner |-> l.jid, name |-> r.name]
  BY <1>5 DEF ApplyToConversations
<1>8. chats' \in [DOMAIN chats -> Chats]
  <2>1. [owner |-> l.jid, name |-> r.name] \in Chats
    BY <1>1, <1>6 DEF Chats
  <2>2. \A k \in DOMAIN chats : chats[k] \in Chats
    BY DEF IInv, StoreType
  <2> QED
    BY <1>5, <1>7, <2>1, <2>2 DEF ApplyToConversations
<1>9. ASSUME NEW x \in messages'
      PROVE  x \in Messages /\ (x \in messages \/ x.shown = r.name)
  <2>1. PICK m \in messages : x = IF m.from \in A THEN [m EXCEPT !.shown = r.name] ELSE m
    BY <1>5, <1>9 DEF ShowName
  <2>2. m \in Messages
    BY DEF IInv, StoreType
  <2> QED
    BY <1>6, <2>1, <2>2 DEF Messages
<1>10. StoreType'
  BY <1>2, <1>5, <1>7, <1>8, <1>9 DEF IInv, StoreType
<1>11. Owned' /\ LookupsClean'
  BY <1>2, <1>5, <1>7 DEF IInv, Owned, LookupsClean
<1>12. ASSUME AllErased, l.push = NoName
       PROVE  /\ CleanRecords(contacts', Jids)
              /\ \A k \in DOMAIN chats' : chats'[k].name \notin Names
              /\ \A x \in messages' : x.shown \notin Names \/ x \in messages
  <2>1. CleanRecords(contacts, Jids) /\ \A k \in DOMAIN chats : chats[k].name \notin Names
    BY <1>12, AllClean DEF IInv
  <2>2. CleanRecords(cs, Jids) /\ r.name \notin Names
    BY <1>1, <1>2, <1>3, <1>12, <2>1 DEF CleanRecords
  <2>3. \A k \in DOMAIN chats' : chats'[k].name \notin Names
    BY <1>7, <2>1, <2>2
  <2> QED
    BY <1>5, <1>9, <2>2, <2>3
<1>13. ErasedIsClean'
  <2>1. PICK b \in BOOLEAN : b = (l.push # NoName /\ ~l.clean)
    OBVIOUS
  <2>2. ~b => l.push = NoName
    BY <1>1, <2>1
  <2> QED
    BY <1>2, <1>5, <1>12, <2>1, <2>2, AfterWrite
<1> QED
  BY <1>10, <1>11, <1>13 DEF IInv

(* A step that changes nothing but the lookups, the group and counters.    *)
LEMMA StoreUntouched ==
    ASSUME IInv, UNCHANGED <<contacts, chats, messages, erased>>, LookupsClean'
    PROVE  IInv'
  BY DEF IInv, StoreType, IsContacts, Owned, ErasedIsClean, CleanRecords

(* inspect_contact.                                                        *)
LEMMA InspectKeeps ==
    ASSUME IInv, NEW j \in Jids, InspectContact(j)
    PROVE  IInv'
<1>1. j \in DOMAIN contacts /\ contacts[j].push \in Pushes /\ contacts[j].canonical \in Alts
  BY DEF InspectContact, Known, IInv, StoreType, IsContacts, Record, Pushes, Alts
<1>2. PICK l \in RefreshContexts(j) : lookups' = lookups \cup {l}
  BY DEF InspectContact
<1>3. PICK k, a : /\ a = IF contacts[j].canonical = j THEN Absent ELSE contacts[j].canonical
                  /\ l = [id |-> NewId, jid |-> j, alt |-> a, chat |-> k,
                          push |-> contacts[j].push, api |-> TRUE, clean |-> AllErased]
  BY DEF RefreshContexts
<1>4. l.jid = j /\ l.push = contacts[j].push /\ l.alt = a /\ (l.clean => AllErased)
  BY <1>3
<1>5. AllErased => contacts[j].push = NoName
  BY <1>1, AllClean DEF IInv, CleanRecords
<1>6. a \in Alts
  BY <1>1, <1>3 DEF Alts
<1>7. LookupsClean'
  BY <1>1, <1>2, <1>4, <1>5, <1>6 DEF IInv, LookupsClean
<1> QED
  BY <1>7, StoreUntouched DEF InspectContact

(* apply_group_profile.                                                    *)
LEMMA GroupRefreshKeeps ==
    ASSUME IInv, GroupRefresh
    PROVE  IInv'
<1>1. PICK p \in GroupAnswers : ApplyGroupProfile(p)
  BY DEF GroupRefresh
<1>2. UNCHANGED <<chats, messages, lookups>> /\ EraseAfterWrite(FALSE)
  BY <1>1 DEF ApplyGroupProfile
<1>3. /\ IsContacts(contacts') /\ DOMAIN contacts \subseteq DOMAIN contacts'
      /\ CleanRecords(contacts, Jids) => CleanRecords(contacts', Jids)
  <2>1. CASE contacts' = contacts
    BY <2>1 DEF IInv, StoreType
  <2>2. CASE p.member # Absent /\ p.phone
    <3>1. contacts' = UpsertContactWithAlt(contacts, p.member, NoName, Phone)
      BY <1>1, <2>2 DEF ApplyGroupProfile
    <3>2. p.member \in Jids /\ NoName \in Pushes /\ Phone \in Alts
      BY <2>2 DEF GroupAnswers, Pushes, Jids, Addresses, Alts
    <3> QED
      BY <3>1, <3>2, UpsertWithAlt DEF IInv, StoreType
  <2> QED
    BY <1>1, <2>1, <2>2 DEF ApplyGroupProfile
<1>4. StoreType' /\ Owned' /\ LookupsClean'
  BY <1>2, <1>3 DEF IInv, StoreType, Owned, LookupsClean
<1>5. ErasedIsClean'
  <2>1. AllErased => /\ CleanRecords(contacts', Jids)
                     /\ \A k \in DOMAIN chats' : chats'[k].name \notin Names
    BY <1>2, <1>3, AllClean DEF IInv
  <2> QED
    BY <1>2, <1>3, <2>1, AfterWrite
<1> QED
  BY <1>4, <1>5 DEF IInv

(* anonymize_contact: the erase reaches one more id.                       *)
LEMMA AnonymizeKeeps ==
    ASSUME IInv, NEW j \in Jids, AnonymizeContact(j)
    PROVE  IInv'
<1>1. PICK A : A = Aliases(contacts[j], j)
  OBVIOUS
<1>2. /\ j \in A /\ j \in DOMAIN contacts /\ lookups' = lookups /\ erased' = erased \cup {j}
      /\ contacts' = [contacts EXCEPT ![j].name = Anonymous, ![j].push = NoName]
      /\ chats' = [k \in DOMAIN chats |-> IF chats[k].owner \in A
                   THEN [chats[k] EXCEPT !.name = Anonymous] ELSE chats[k]]
      /\ messages' = ShowName(A, Anonymous)
  BY <1>1 DEF AnonymizeContact, Known, Aliases
<1>3. Anonymous \notin Names /\ Anonymous \in Shown
  BY NamesAssumption DEF Anonymous, Shown
<1>4. /\ IsContacts(contacts') /\ DOMAIN contacts' = DOMAIN contacts
      /\ contacts'[j].name = Anonymous /\ contacts'[j].push = NoName
      /\ \A x \in DOMAIN contacts : x # j => contacts'[x] = contacts[x]
  BY <1>2, <1>3 DEF IInv, StoreType, IsContacts, Record
<1>5. ASSUME NEW k \in DOMAIN chats
      PROVE  /\ chats'[k] \in Chats /\ chats'[k].owner = chats[k].owner
             /\ chats'[k].name = Anonymous \/ (chats[k].owner \notin A /\ chats'[k] = chats[k])
  BY <1>2, <1>3 DEF IInv, StoreType, Chats
<1>6. DOMAIN chats' = DOMAIN chats /\ chats' \in [DOMAIN chats -> Chats]
  BY <1>2, <1>5
<1>7. ASSUME NEW x \in messages'
      PROVE  /\ x \in Messages
             /\ \E m \in messages : /\ x.from = m.from
                                    /\ x.shown = Anonymous \/ (m.from \notin A /\ x = m)
  <2>1. PICK m \in messages : x = IF m.from \in A THEN [m EXCEPT !.shown = Anonymous] ELSE m
    BY <1>2, <1>7 DEF ShowName
  <2>2. m \in Messages
    BY DEF IInv, StoreType
  <2> QED
    BY <1>3, <2>1, <2>2 DEF Messages
<1>8. StoreType'
  BY <1>4, <1>6, <1>7 DEF IInv, StoreType
<1>9. Owned' /\ LookupsClean'
  BY <1>2, <1>4, <1>5, <1>6 DEF IInv, Owned, LookupsClean
<1>10. ErasedIsClean'
  <2>1. erased' \subseteq DOMAIN contacts' /\ CleanRecords(contacts', erased')
    BY <1>2, <1>3, <1>4 DEF IInv, ErasedIsClean, CleanRecords
  <2>2. \A k \in DOMAIN chats' : chats'[k].owner \in erased' => chats'[k].name \notin Names
    BY <1>2, <1>3, <1>5, <1>6 DEF IInv, ErasedIsClean
  <2>3. \A m \in messages' : m.from \in erased' => m.shown \notin Names
    BY <1>2, <1>3, <1>7 DEF IInv, ErasedIsClean
  <2> QED
    BY <2>1, <2>2, <2>3 DEF ErasedIsClean
<1> QED
  BY <1>8, <1>9, <1>10 DEF IInv

(* A restart finds what the snapshot holds.                               *)
LEMMA RestartKeeps ==
    ASSUME SnapshotOK, Restart
    PROVE  IInv'
<1>1. /\ contacts' = snapshot.contacts /\ chats' = snapshot.chats /\ lookups' = {}
      /\ messages' = snapshot.messages /\ erased' = snapshot.erased
  BY DEF Restart
<1> QED
  BY <1>1 DEF SnapshotOK, StoreOK, IInv, StoreType, Owned, LookupsClean, ErasedIsClean

(* The snapshot is a copy of a store that was as it should be.             *)
LEMMA SnapshotKeeps ==
    ASSUME IInv, SnapshotOK, [Next]_vars
    PROVE  SnapshotOK'
<1>1. CASE WriteSnapshot
  <2>1. /\ snapshot'.contacts = contacts /\ snapshot'.chats = chats
        /\ snapshot'.messages = messages /\ snapshot'.erased = erased
    BY <1>1 DEF WriteSnapshot, StoreNow
  <2> QED
    BY <2>1 DEF SnapshotOK, StoreOK, IInv, StoreType, Owned, ErasedIsClean
<1>2. CASE snapshot' = snapshot
  BY <1>2 DEF SnapshotOK
<1> QED
  BY <1>1, <1>2
  DEF Next, vars, snapshotVars, DirectMessage, GroupMessage, OwnGroupMessage, RepeatedMessage,
      PrepareSendMessage, GroupUpdate, InspectContact, LookupAnswers, LookupFails,
      GroupRefresh, ApplyGroupProfile, AnonymizeContact, Restart

LEMMA NextInvariant == IInv /\ SnapshotOK /\ [Next]_vars => (IInv /\ SnapshotOK)'
<1> SUFFICES ASSUME IInv, SnapshotOK, [Next]_vars PROVE IInv'
  BY SnapshotKeeps
<1>1. CASE UNCHANGED vars \/ OwnGroupMessage \/ (\E s \in Subjects : GroupUpdate(s))
           \/ WriteSnapshot
  <2>1. UNCHANGED <<contacts, chats, messages, erased, lookups>>
    BY <1>1 DEF vars, OwnGroupMessage, GroupUpdate, WriteSnapshot
  <2> QED
    BY <2>1, StoreUntouched DEF IInv, LookupsClean
<1>2. ASSUME NEW m \in messages, RepeatedMessage(m) PROVE IInv'
  <2>1. PICK j : j = IF m.chat = GroupJid THEN m.from ELSE m.chat
    OBVIOUS
  <2>2. m \in Messages /\ m.from # Absent
    BY <1>2 DEF IInv, StoreType, RepeatedMessage
  <2>3. j \in Jids /\ m.push \in Pushes /\ m.alt \in Alts
    BY <2>1, <2>2 DEF Messages, Alts, Jids
  <2>4. LookupsClean'
    BY <1>2, <2>1, <2>3, Spawned DEF RepeatedMessage, IInv
  <2> QED
    BY <1>2, <2>4, StoreUntouched DEF RepeatedMessage
<1>3. ASSUME NEW l \in lookups, NEW p \in ContactAnswers(l.jid), LookupAnswers(l, p)
      PROVE  IInv'
  <2>1. l.jid \in Jids /\ l.alt \in Alts
    BY DEF IInv, LookupsClean
  <2>2. p \in Profiles
    BY <2>1 DEF ContactAnswers, Profiles, Alts, Jids, Addresses
  <2>3. MergeAlt(l, p) \in Profiles
    BY <2>1, <2>2, AltProfile DEF MergeAlt, Profiles
  <2> QED
    BY <1>3, <2>3, ProfileKeeps DEF LookupAnswers
<1>4. ASSUME NEW l \in lookups, LookupFails(l) PROVE IInv'
  <2>1. ProfileFromAlt(l.jid, l.alt) \in Profiles
    BY AltProfile DEF IInv, LookupsClean
  <2>2. CASE UNCHANGED <<contacts, chats, messages, erased>>
    BY <1>4, <2>2, StoreUntouched DEF LookupFails, IInv, LookupsClean
  <2> QED
    BY <1>4, <2>1, <2>2, ProfileKeeps DEF LookupFails
<1>5. ASSUME NEW j \in Addresses, NEW n \in Names \cup {NoName},
             NEW s \in SendersIn(j) \cup {Absent}, NEW alt \in {AltOf(j), Absent},
             DirectMessage(j, s, n, alt)
      PROVE  IInv'
  <2>1. s \in Alts /\ alt \in Alts
    BY DEF SendersIn, AltOf, Alts, Jids, Addresses
  <2> QED
    BY <1>5, <2>1, DirectMessageKeeps DEF Pushes
<1>6. ASSUME NEW j \in Jids, NEW n \in Names \cup {NoName}, NEW alt \in {AltOf(j), Absent},
             GroupMessage(j, n, alt)
      PROVE  IInv'
  <2>1. alt \in Alts
    BY DEF AltOf, Alts, Jids, Addresses
  <2> QED
    BY <1>6, <2>1, GroupMessageKeeps DEF Pushes
<1> QED
  BY <1>1, <1>2, <1>3, <1>4, <1>5, <1>6, SendKeeps, InspectKeeps, GroupRefreshKeeps,
     AnonymizeKeeps, RestartKeeps DEF Next

(* A privacy erase that has reached every id of a person (anonymize_contact *)
(* per id) stays: nameless messages, API sends, later lookups and the      *)
(* copies that apply_contact_profile makes, group refreshes and restarts   *)
(* from a snapshot not older than the erase bring no name back into        *)
(* records, conversations and the messages of those ids.                   *)
THEOREM ErasedNamesStayAway == Spec => []ErasedStaysErased
<1>1. IInv => ErasedStaysErased
  BY AllClean DEF IInv, ErasedStaysErased, CleanRecords, StoreType, IsContacts
<1> QED
  BY <1>1, InitInvariant, NextInvariant, PTL DEF Spec

(* Whoever writes last of a message, a subject change and a late lookup,   *)
(* apply_group_record_to_conversation leaves the group's conversation with *)
(* the subject of the group's record.                                      *)
THEOREM GroupChatsShowTheirSubject == Spec => []GroupChatShowsSubject
<1> DEFINE Groups == [subject : Subjects \cup {NoName},
                      chat : Subjects \cup {GroupFallback, Absent}]
           Shows(g) == g \in Groups /\ (g.chat # Absent => g.chat = GroupChatName(g))
           Inv == Shows(group) /\ Shows(snapshot.group)
<1>1. Init => Inv
  <2> SUFFICES ASSUME Init PROVE Inv
    OBVIOUS
  <2>1. group = [subject |-> NoName, chat |-> Absent] /\ snapshot.group = group
    BY DEF Init, StoreNow
  <2> QED
    BY <2>1
<1>2. Inv /\ [Next]_vars => Inv'
  <2> SUFFICES ASSUME Inv, [Next]_vars PROVE Inv'
    OBVIOUS
  <2>1. CASE group' = group /\ snapshot' = snapshot
    BY <2>1
  <2>2. CASE group' = [group EXCEPT !.chat = GroupChatName(group)] /\ snapshot' = snapshot
    BY <2>2 DEF GroupChatName
  <2>3. ASSUME NEW s \in Subjects, GroupUpdate(s) PROVE Inv'
    BY <2>3, NamesAssumption DEF GroupUpdate, GroupChatName, snapshotVars
  <2>4. ASSUME NEW p \in GroupAnswers, ApplyGroupProfile(p)
        PROVE  Inv'
    <3>1. PICK g : g = [group EXCEPT !.subject = p.subject]
      OBVIOUS
    <3>2. group' = [g EXCEPT !.chat = GroupChatName(g)] /\ snapshot' = snapshot
      BY <2>4, <3>1 DEF ApplyGroupProfile, snapshotVars
    <3>3. Shows(group')
      BY <3>1, <3>2 DEF GroupAnswers, GroupChatName
    <3> HIDE DEF Shows
    <3> QED
      BY <3>2, <3>3
  <2>5. CASE WriteSnapshot
    <3>1. group' = group /\ snapshot'.group = group
      BY <2>5 DEF WriteSnapshot, StoreNow
    <3> QED
      BY <3>1
  <2>6. CASE Restart
    <3>1. group' = snapshot.group /\ snapshot' = snapshot
      BY <2>6 DEF Restart, snapshotVars
    <3> QED
      BY <3>1
  <2> HIDE DEF Inv
  <2> QED
    BY <2>1, <2>2, <2>3, <2>4, <2>5, <2>6
    DEF Next, vars, snapshotVars, DirectMessage, GroupMessage, OwnGroupMessage, RepeatedMessage,
        PrepareSendMessage, InspectContact, LookupAnswers, LookupFails, GroupRefresh,
        AnonymizeContact
<1>3. Inv => GroupChatShowsSubject
  BY DEF GroupChatShowsSubject
<1> QED
  BY <1>1, <1>2, <1>3, PTL DEF Spec

-----------------------------------------------------------------------------
(***************************************************************************)
(* RelationalMirror.  A number is taken by a message of the store, of the  *)
(* snapshot or of the messages table, which keeps what the other two have  *)
(* removed.  SeqIsNeverTakenTwice is not inductive: a crash brings back    *)
(* the messages and the last_seq of the snapshot, so the invariant numbers *)
(* the three together, and keeps the numbers of the snapshot and of the    *)
(* table within the last_seq of the snapshot.                              *)
(***************************************************************************)
MirrorStores ==
    [messages : SUBSET Ids, wa : [Ids -> 0..MaxWa], lastSeq : Nat,
     media : SUBSET ({0} \cup Ids), transcripts : SUBSET Ids, chats : SUBSET {0, 1},
     callbacks : SUBSET {1}, attempts : SUBSET {1}]

(* The ids with a row of the messages table.                               *)
MessageRowIds == {j \in Ids : <<"messages", j>> \in rows}

Numbered == store.messages \cup saved.messages \cup MessageRowIds

MirrorType ==
    /\ store \in MirrorStores /\ saved \in MirrorStores
    /\ nextId \in 0..MaxIds
    /\ seqOf \in [Ids -> Nat]
    /\ sending \subseteq Ids \X (1..MaxWa)

NumberInv ==
    /\ MirrorType
    /\ \A i \in Numbered : i <= nextId
    /\ \A i, j \in Numbered : seqOf[i] = seqOf[j] => i = j
    /\ \A i \in Numbered : seqOf[i] <= store.lastSeq
    /\ \A i \in saved.messages \cup MessageRowIds : seqOf[i] <= saved.lastSeq
    /\ saved.lastSeq <= store.lastSeq

LEMMA MirrorBounds == MaxIds \in Nat /\ MaxWa \in Nat
  BY MirrorAssumption

LEMMA NumberInit == MirrorInit => NumberInv
  BY MirrorBounds DEF MirrorInit, NoWa, Ids, MirrorStores, MessageRowIds, Numbered,
     MirrorType, NumberInv

(* A step that only takes messages away from the store.                    *)
LEMMA MirrorKeeps ==
    ASSUME NumberInv, MirrorType',
           store'.messages \subseteq store.messages, store'.lastSeq = store.lastSeq,
           UNCHANGED <<saved, rows, seqOf, nextId>>
    PROVE  NumberInv'
<1>1. Numbered' \subseteq Numbered /\ MessageRowIds' = MessageRowIds
  BY DEF Numbered, MessageRowIds
<1> QED
  BY <1>1 DEF NumberInv

(* NewMessage: the id and the number are both new.                         *)
LEMMA MirrorNewMessage ==
    ASSUME NumberInv, NEW w \in 0..MaxWa,
           NewMessage(w), sending' = sending, UNCHANGED <<saved, rows>>
    PROVE  NumberInv'
<1> USE MirrorBounds DEF NumberInv, MirrorType
<1>1. nextId + 1 \in Ids /\ nextId' = nextId + 1 /\ store' = Recorded(w)
      /\ seqOf' = [seqOf EXCEPT ![nextId + 1] = store.lastSeq + 1]
  BY DEF NewMessage, Changes, Ids
<1>2. store \in MirrorStores
  OBVIOUS
<1>3. /\ store' \in MirrorStores /\ store'.messages = store.messages \cup {nextId + 1}
      /\ store'.lastSeq = store.lastSeq + 1 /\ store.lastSeq \in Nat
  <2>1. store' = [store EXCEPT !.messages = @ \cup {nextId + 1},
                               !.wa = [@ EXCEPT ![nextId + 1] = w],
                               !.lastSeq = @ + 1, !.chats = @ \cup {1}]
    BY <1>1 DEF Recorded, Chat
  <2>2. PICK wa \in [Ids -> 0..MaxWa] : wa = [store.wa EXCEPT ![nextId + 1] = w]
    BY <1>2 DEF MirrorStores
  <2>3. store' = [messages |-> store.messages \cup {nextId + 1}, wa |-> wa,
                  lastSeq |-> store.lastSeq + 1, media |-> store.media,
                  transcripts |-> store.transcripts, chats |-> store.chats \cup {1},
                  callbacks |-> store.callbacks, attempts |-> store.attempts]
    BY <1>2, <2>1, <2>2 DEF MirrorStores
  <2> HIDE DEF NumberInv, MirrorType
  <2>4. /\ store.messages \cup {nextId + 1} \in SUBSET Ids
        /\ store.lastSeq \in Nat /\ store.chats \cup {1} \in SUBSET {0, 1}
        /\ store.media \in SUBSET ({0} \cup Ids) /\ store.transcripts \in SUBSET Ids
        /\ store.callbacks \in SUBSET {1} /\ store.attempts \in SUBSET {1}
    BY <1>1, <1>2 DEF MirrorStores
  <2> QED
    BY <2>3, <2>4 DEF MirrorStores
<1>4. MirrorType'
  BY <1>1, <1>3 DEF Ids
<1>5. Numbered' = Numbered \cup {nextId + 1} /\ MessageRowIds' = MessageRowIds
  BY <1>3 DEF Numbered, MessageRowIds
<1>6. Numbered \subseteq Ids /\ nextId + 1 \notin Numbered
  <2>1. saved.messages \subseteq Ids /\ store.messages \subseteq Ids
    BY DEF MirrorStores
  <2> QED
    BY <2>1 DEF Numbered, MessageRowIds, Ids
<1>7. /\ \A i \in Numbered : seqOf'[i] = seqOf[i] /\ seqOf[i] \in Nat /\ i <= nextId'
      /\ seqOf'[nextId + 1] = store.lastSeq + 1
  BY <1>1, <1>6 DEF Ids
<1>8. saved.lastSeq \in Nat
  BY DEF MirrorStores
<1> HIDE DEF MirrorType
<1>9. \A i, j \in Numbered' : seqOf'[i] = seqOf'[j] => i = j
  BY <1>3, <1>5, <1>7
<1>10. \A i \in Numbered : seqOf[i] <= store.lastSeq
  OBVIOUS
<1>11. /\ \A i \in saved.messages \cup MessageRowIds : seqOf[i] <= saved.lastSeq
       /\ saved.lastSeq <= store.lastSeq
       /\ saved.messages \cup MessageRowIds \subseteq Numbered
  BY DEF Numbered
<1>12. nextId \in Nat /\ nextId' = nextId + 1 /\ saved' = saved
  BY <1>1 DEF MirrorType
<1> HIDE DEF NumberInv
<1>13. \A i \in Numbered' : i <= nextId'
  BY <1>5, <1>7, <1>12
<1>14. ASSUME NEW i \in Numbered' PROVE seqOf'[i] <= store'.lastSeq
  <2>1. CASE i \in Numbered
    <3>1. seqOf'[i] \in Nat /\ seqOf'[i] <= store.lastSeq
      BY <1>7, <1>10, <2>1
    <3> QED
      BY <1>3, <3>1
  <2>2. CASE i = nextId + 1
    BY <1>3, <1>7, <2>2
  <2> QED
    BY <1>5, <2>1, <2>2
<1>15. \A i \in (saved.messages \cup MessageRowIds)' : seqOf'[i] <= saved'.lastSeq
  BY <1>5, <1>7, <1>11, <1>12
<1>16. saved'.lastSeq <= store'.lastSeq
  BY <1>3, <1>8, <1>11, <1>12
<1> QED
  BY <1>4, <1>9, <1>13, <1>14, <1>15, <1>16 DEF NumberInv

(* A message row comes from a message of the snapshot.                     *)
LEMMA CurrentMessages ==
    ASSUME NEW r \in Current PROVE \A j : r = <<"messages", j>> => j \in saved.messages
<1>1. PICK n : r \in Outdated(Order[n])
  BY DEF Current
<1>2. r \in RowsOf(Order[n], saved)
  BY <1>1 DEF Outdated
<1> SUFFICES ASSUME NEW j, r = <<"messages", j>> PROVE j \in saved.messages
  OBVIOUS
<1>3. Order[n] = "messages"
  BY <1>2 DEF RowsOf
<1> QED
  BY <1>2, <1>3 DEF RowsOf, MessageRows

LEMMA SanitizedStore ==
    ASSUME NEW s \in MirrorStores
    PROVE  /\ Sanitized(s) \in MirrorStores /\ Sanitized(s).messages = s.messages
           /\ Sanitized(s).lastSeq = s.lastSeq
  BY DEF Sanitized, Entity, MirrorStores

LEMMA NumberNext ==
    ASSUME NumberInv, [MirrorNext]_mirrorVars
    PROVE  NumberInv'
<1>1. store \in MirrorStores /\ saved \in MirrorStores
  BY DEF NumberInv, MirrorType
<1> USE DEF taskVars, outsideVars, counters, Changes, Ids
<1> DEFINE Same == UNCHANGED <<saved, rows, seqOf, nextId>>
<1>2. CASE SendMessage
  BY <1>2, MirrorNewMessage, MirrorBounds DEF SendMessage, NoWa
<1>3. ASSUME NEW i \in Ids, Accept(i) PROVE NumberInv'
  <2>1. Same /\ store' = store /\ MirrorType'
    BY <1>3 DEF Accept, NumberInv, MirrorType
  <2> QED
    BY <2>1, MirrorKeeps
<1>4. ASSUME NEW i \in Ids, NEW w \in 1..MaxWa, RecordSent(i, w) PROVE NumberInv'
  <2>1. Same /\ sending' \subseteq sending
    BY <1>4 DEF RecordSent
  <2>2. CASE i \notin store.messages
    <3>1. store' = store
      BY <1>4, <2>2 DEF RecordSent
    <3> QED
      BY <2>1, <3>1, MirrorKeeps DEF NumberInv, MirrorType
  <2>3. CASE i \in store.messages
    <3>1. store' = [store EXCEPT !.wa = [@ EXCEPT ![i] = w]]
      BY <1>4, <2>3 DEF RecordSent
    <3>2. [store.wa EXCEPT ![i] = w] \in [Ids -> 0..MaxWa]
      BY <1>1 DEF MirrorStores
    <3>3. store' \in MirrorStores /\ store'.messages = store.messages
          /\ store'.lastSeq = store.lastSeq
      BY <1>1, <3>1, <3>2 DEF MirrorStores
    <3> QED
      BY <2>1, <3>3, MirrorKeeps DEF NumberInv, MirrorType
  <2> QED
    BY <2>2, <2>3
<1>5. ASSUME NEW i \in Ids, RecordMedia(i) \/ ReadAudio(i) \/ RecordTranscript(i)
                            \/ Retention(i) \/ TempMediaExpires(i) \/ TranscriptExpires(i)
      PROVE  NumberInv'
  <2>1. Same /\ sending' = sending
    BY <1>5 DEF RecordMedia, ReadAudio, RecordTranscript, Retention, TempMediaExpires,
       TranscriptExpires
  <2>2. store' \in MirrorStores /\ store'.messages \subseteq store.messages
        /\ store'.lastSeq = store.lastSeq
    <3>1. CASE RecordMedia(i)
      BY <1>1, <3>1 DEF RecordMedia, MirrorStores
    <3>2. CASE RecordTranscript(i)
      BY <1>1, <3>2 DEF RecordTranscript, MirrorStores
    <3>3. CASE Retention(i)
      BY <1>1, <3>3 DEF Retention, MirrorStores
    <3>4. CASE ReadAudio(i)
      BY <1>1, <3>4 DEF ReadAudio
    <3>5. CASE TempMediaExpires(i)
      BY <1>1, <3>5 DEF TempMediaExpires, MirrorStores
    <3>6. CASE TranscriptExpires(i)
      BY <1>1, <3>6 DEF TranscriptExpires, MirrorStores
    <3> QED
      BY <1>5, <3>1, <3>2, <3>3, <3>4, <3>5, <3>6
  <2> QED
    BY <2>1, <2>2, MirrorKeeps DEF NumberInv, MirrorType
<1>6. ASSUME NEW w \in 1..MaxWa, WhatsappMessage(w) PROVE NumberInv'
  BY <1>6, MirrorNewMessage DEF WhatsappMessage
<1>7. CASE RecordPicture \/ UpsertCallback \/ RecordAttempt
           \/ DeleteCallback
  <2> USE DEF RecordPicture, UpsertCallback, RecordAttempt,
              DeleteCallback
  <2>1. Same /\ sending' = sending
    BY <1>7
  <2>2. store' \in MirrorStores /\ store'.messages = store.messages
        /\ store'.lastSeq = store.lastSeq
    BY <1>1, <1>7 DEF MirrorStores, Entity, Only
  <2> QED
    BY <2>1, <2>2, MirrorKeeps DEF NumberInv, MirrorType
<1>8. CASE Save
  <2>1. saved' = Sanitized(store) /\ UNCHANGED <<store, rows, seqOf, nextId, sending>>
    BY <1>8 DEF Save
  <2>2. saved' \in MirrorStores /\ saved'.messages = store.messages
        /\ saved'.lastSeq = store.lastSeq
    BY <1>1, <2>1, SanitizedStore
  <2>3. Numbered' \subseteq Numbered /\ MessageRowIds' = MessageRowIds
        /\ saved'.messages \cup MessageRowIds \subseteq Numbered
    BY <2>1, <2>2 DEF Numbered, MessageRowIds
  <2>4. store'.lastSeq = store.lastSeq /\ store.lastSeq \in Nat
    BY <1>1, <2>1 DEF MirrorStores
  <2> QED
    BY <2>1, <2>2, <2>3, <2>4 DEF NumberInv, MirrorType
<1>9. CASE Upsert
  <2>1. PICK r \in Current : rows' = rows \cup {r}
    BY <1>9 DEF Upsert
  <2>2. UNCHANGED <<store, saved, seqOf, nextId, sending>>
    BY <1>9 DEF Upsert
  <2>3. MessageRowIds' \subseteq MessageRowIds \cup saved.messages
    BY <2>1, CurrentMessages DEF MessageRowIds
  <2>4. Numbered' = Numbered
    BY <2>1, <2>2, <2>3 DEF Numbered, MessageRowIds
  <2> QED
    BY <2>2, <2>3, <2>4 DEF NumberInv, MirrorType
<1>10. CASE EndPass \/ SaveFails \/ StatementFails \/ UNCHANGED mirrorVars
  <2>1. Same /\ UNCHANGED <<store, sending>>
    BY <1>10 DEF EndPass, SaveFails, StatementFails, mirrorVars
  <2> QED
    BY <2>1, MirrorKeeps DEF NumberInv, MirrorType
<1>11. CASE Crash
  <2>1. store' = Sanitized(saved) /\ UNCHANGED <<saved, rows, seqOf, nextId>>
        /\ sending' = {}
    BY <1>11 DEF Crash
  <2>2. store' \in MirrorStores /\ store'.messages = saved.messages
        /\ store'.lastSeq = saved.lastSeq
    BY <1>1, <2>1, SanitizedStore
  <2>3. MessageRowIds' = MessageRowIds /\ Numbered' = saved.messages \cup MessageRowIds
        /\ Numbered' \subseteq Numbered
    BY <2>1, <2>2 DEF Numbered, MessageRowIds
  <2>4. saved.lastSeq \in Nat
    BY <1>1 DEF MirrorStores
  <2> QED
    BY <2>1, <2>2, <2>3, <2>4 DEF NumberInv, MirrorType
<1> QED
  BY <1>2, <1>3, <1>4, <1>5, <1>6, <1>7, <1>8, <1>9, <1>10, <1>11
     DEF MirrorNext, SnapshotTask, Ids

(* A message never has the number of another row of the messages table.    *)
THEOREM MirrorNumbers == MirrorSpec => []SeqIsNeverTakenTwice
<1>1. MirrorInit => NumberInv
  BY NumberInit
<1>2. NumberInv /\ [MirrorNext]_mirrorVars => NumberInv'
  BY NumberNext
<1>3. NumberInv => SeqIsNeverTakenTwice
  BY DEF NumberInv, Numbered, MessageRowIds, Ids, SeqIsNeverTakenTwice
<1> QED
  BY <1>1, <1>2, <1>3, PTL DEF MirrorSpec
=============================================================================
