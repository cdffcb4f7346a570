--------------------------- MODULE ContactProfiles ---------------------------
(***************************************************************************)
(* What the store knows of one person and of one group: the contact        *)
(* records, the names copied from them into conversations, messages and    *)
(* group members, the profile lookups that run outside the store lock, and *)
(* the privacy erase.                                                      *)
(*                                                                         *)
(* A person has two addresses, the phone JID and the LID, and the sender   *)
(* of a message may be one of them with a device number, which the code    *)
(* takes for an id of its own.  Each id has a record; a lookup (or an      *)
(* event that names another id) links them by copying one record over the  *)
(* others.  Every handler takes the store lock once, so it is one action;  *)
(* a lookup is an action that starts it, with what it captured, and an     *)
(* action that applies its answer.  The snapshot is written by a task of   *)
(* its own, so a restart may find an older store.                          *)
(*                                                                         *)
(* Phone numbers, pictures and business descriptions are left out: they    *)
(* are written beside the name, under the same conditions.  So is the text *)
(* of messages, which a privacy delete takes away with the sender's name.  *)
(* Time is left out: whether the interval since the last lookup has passed  *)
(* is a free choice.                                                       *)
(***************************************************************************)
EXTENDS Naturals, FiniteSets, Sequences

CONSTANTS Names,          \* push names the person may use
          Subjects,       \* group subjects
          NoName,         \* no push name, no subject
          Devices,        \* the ids with a device number that write
          MaxInputs,      \* bound: messages, requests and answers about the group
          MaxLookups,     \* bound: contact lookups under way
          MaxWrites       \* bound: snapshots written

Phone == "phone"
Lid == "lid"
Addresses == {Phone, Lid}
Jids == Addresses \cup Devices
GroupJid == "group"
Absent == "absent"
Anonymous == "anonymous"
GroupFallback == "fallback"

\* A device number belongs to one of the addresses, and the person's names
\* are not among the labels the code makes up.
ASSUME NamesAssumption ==
    /\ Devices \subseteq {"phone_device", "lid_device"}
    /\ NoName \notin Names \cup Subjects
    /\ Names \cap ({"number", Anonymous} \cup Jids) = {}

VARIABLES contacts,      \* inner.contacts: id -> record, a partial function
          chats,         \* the direct conversations: id -> [owner, name]
          messages,      \* messages of and to the person, with the name each shows
          members,       \* inner.group_members of the group: id -> name shown
          group,         \* the group's record and conversation
          snapshot,      \* the stored snapshot of the five above
          lookups,       \* contact lookups under way
          inputs,        \* how many of these came
          writes,        \* how many snapshots were written
          erased         \* history: ids erased by the running privacy request

vars == <<contacts, chats, messages, members, group, snapshot, lookups,
          inputs, writes, erased>>

snapshotVars == <<snapshot, writes>>

\* What persist_locked hands over, with the history that belongs to it.
StoreNow == [contacts |-> contacts, chats |-> chats, messages |-> messages,
            members |-> members, group |-> group, erased |-> erased]

IsLid(j) == j \in {Lid, "lid_device"}

\* The ids a person's message in the conversation of address j may come from.
SendersIn(j) == {j} \cup {d \in Devices : IsLid(d) = IsLid(j)}

\* display_name_for_jid: the number of a phone JID, otherwise the local part.
DisplayNameForJid(j) == IF j = Phone THEN "number" ELSE j

Shown == Names \cup {"number", Anonymous} \cup Jids

Record == [name : Shown, push : Names \cup {NoName},
           canonical : Jids \cup {Absent}, lid : Jids \cup {Absent}]

(* The values the variables take.                                          *)
TypeOK ==
    /\ DOMAIN contacts \subseteq Jids /\ contacts \in [DOMAIN contacts -> Record]
    /\ DOMAIN chats \subseteq Addresses
    /\ chats \in [DOMAIN chats -> [owner : Jids, name : Shown]]
    /\ messages \subseteq [from : Jids \cup {Absent}, chat : Addresses \cup {GroupJid},
                           push : Names \cup {NoName}, alt : Jids \cup {Absent},
                           shown : Shown]
    /\ DOMAIN members \subseteq Jids /\ members \in [DOMAIN members -> Shown]
    /\ group \in [subject : Subjects \cup {NoName},
                  chat : Subjects \cup {GroupFallback, Absent}]
    /\ lookups \subseteq [id : 1..MaxLookups, jid : Jids, alt : Jids \cup {Absent},
                          chat : Jids \cup {GroupJid}, push : Names \cup {NoName},
                          api : BOOLEAN, clean : BOOLEAN]
    /\ inputs \in 0..MaxInputs
    /\ writes \in 0..MaxWrites
    /\ erased \subseteq Jids

Init ==
    /\ contacts = <<>> /\ chats = <<>> /\ messages = {} /\ members = <<>>
    /\ group = [subject |-> NoName, chat |-> Absent]
    /\ lookups = {}
    /\ inputs = 0
    /\ writes = 0
    /\ erased = {}
    /\ snapshot = StoreNow

-----------------------------------------------------------------------------
(* The helpers that write contact records.  cs is the map they start from. *)

\* HashMap::insert.
Insert(f, k, v) == [x \in DOMAIN f \cup {k} |-> IF x = k THEN v ELSE f[x]]

\* upsert_contact_inner: a name that came with the call replaces the one
\* stored; without one, a new record shows its number or its local part.
UpsertContact(cs, j, n) ==
    LET old == IF j \in DOMAIN cs THEN cs[j]
               ELSE [name |-> DisplayNameForJid(j), push |-> NoName,
                     canonical |-> IF IsLid(j) THEN Absent ELSE j,
                     lid |-> IF IsLid(j) THEN j ELSE Absent]
    IN  Insert(cs, j, IF n = NoName THEN old
                      ELSE [old EXCEPT !.name = n, !.push = n])

\* The ids a record names besides its own.
LinkedIds(r) == {r.canonical, r.lid} \ {Absent}

\* enrich_contact_inner: the links of the record become what the profile says
\* of them, and the record is copied over those of the ids it names.
EnrichContact(cs, j, n, p) ==
    LET r0 == UpsertContact(cs, j, n)[j]
        canonical == IF p.resolved # Absent /\ ~IsLid(p.resolved) THEN p.resolved
                     ELSE IF IsLid(j) THEN Absent ELSE j
        nameless == n = NoName /\ r0.name = DisplayNameForJid(j)
        r == [name |-> IF nameless /\ canonical = Phone THEN "number" ELSE r0.name,
              push |-> r0.push,
              canonical |-> canonical,
              lid |-> IF p.lid = Absent /\ IsLid(j) THEN j ELSE p.lid]
    IN  [x \in DOMAIN cs \cup {j} \cup LinkedIds(r) |->
            IF x \in {j} \cup LinkedIds(r) THEN r ELSE cs[x]]

\* contact_profile_from_alt.
ProfileFromAlt(j, alt) ==
    [resolved |-> IF Phone \in {j, alt} THEN Phone ELSE Absent,
     lid |-> IF IsLid(j) THEN j ELSE IF IsLid(alt) THEN alt ELSE Absent]

\* upsert_contact_with_alt_inner: an event that carries another id links the
\* records at once, without a lookup.
UpsertContactWithAlt(cs, j, n, alt) ==
    IF alt \notin {j, Absent} THEN EnrichContact(cs, j, n, ProfileFromAlt(j, alt))
    ELSE UpsertContact(cs, j, n)

\* The other address of the person, which an event may carry.
AltOf(j) == IF IsLid(j) THEN Phone ELSE Lid

\* contact_aliases_for_record.
Aliases(r, j) == {j} \cup LinkedIds(r)

\* resolve_contact_id_inner: an id with a record names that record.  A phone
\* id without one could name a record that has its number, but another record
\* learns the number only together with the phone id's own record.
Known(j) == j \in DOMAIN contacts

\* The messages of these senders show this name.
ShowName(senders, name) ==
    {IF m.from \in senders THEN [m EXCEPT !.shown = name] ELSE m : m \in messages}

Input == inputs < MaxInputs /\ inputs' = inputs + 1

\* A number no lookup under way has.
NewId == CHOOSE i \in 1..MaxLookups : \A l \in lookups : l.id # i

\* The erase request covers every id the store has.
AllErased == DOMAIN contacts # {} /\ DOMAIN contacts \subseteq erased

\* An id that messages came from gets its first record.
LateRecord == \E m \in messages : m.from \in DOMAIN contacts' \ DOMAIN contacts

\* History: a write that brings a name in, that makes a record the request
\* could not reach, or that comes before the request has reached every id,
\* makes the erase start again.
EraseAfterWrite(bringsName) ==
    erased' = IF AllErased /\ ~bringsName /\ ~LateRecord THEN DOMAIN contacts' ELSE {}

-----------------------------------------------------------------------------
(* WhatsApp events.                                                        *)

\* spawn_contact_enrichment: start a task that holds the push name of this
\* event, unless reserve_contact_profile_refresh finds that the record's last
\* lookup was too recent.
SpawnContactEnrichment(j, n, alt, chat) ==
    \/ /\ Cardinality(lookups) < MaxLookups
       /\ lookups' = lookups \cup {[id |-> NewId, jid |-> j, alt |-> alt,
                                    chat |-> chat, push |-> n, api |-> FALSE,
                                    clean |-> AllErased /\ n = NoName]}
    \/ UNCHANGED lookups

\* apply_group_record_to_conversation.
GroupChatName(g) == IF g.subject # NoName THEN g.subject ELSE GroupFallback

\* The direct conversation of address j after a message in it.
ChatAfter(j, name) ==
    Insert(chats, j, [owner |-> IF j \in DOMAIN chats THEN chats[j].owner ELSE j,
                      name |-> name])

\* A message in the direct conversation of address j, from the person (under
\* the id s, with the name n, perhaps none) or from another device of the
\* account (s = Absent): the contact is written under the address, then the
\* conversation, then the message with its sender, and a lookup may start.
\* The account's own messages show no name and are not kept in messages.
DirectMessage(j, s, n, alt) ==
    LET cs == UpsertContactWithAlt(contacts, j, n, alt)
        m == [from |-> s, chat |-> j, push |-> n, alt |-> alt, shown |-> cs[j].name]
    IN  /\ Input
        /\ s = Absent => n = NoName
        /\ contacts' = cs
        /\ chats' = ChatAfter(j, cs[j].name)
        /\ messages' = IF s = Absent THEN messages ELSE messages \cup {m}
        /\ SpawnContactEnrichment(j, n, alt, j)
        /\ EraseAfterWrite(n # NoName)
        /\ UNCHANGED <<members, group, snapshotVars>>

\* A message of the person in the group: the sender is written as a contact
\* and as a member, and a lookup of the contact may start.
GroupMessage(j, n, alt) ==
    LET cs == UpsertContactWithAlt(contacts, j, n, alt)
        m == [from |-> j, chat |-> GroupJid, push |-> n, alt |-> alt,
              shown |-> cs[j].name]
    IN  /\ Input
        /\ contacts' = cs
        /\ messages' = messages \cup {m}
        /\ members' = Insert(members, j, cs[j].name)
        /\ group' = [group EXCEPT !.chat = GroupChatName(group)]
        /\ SpawnContactEnrichment(j, n, alt, GroupJid)
        /\ EraseAfterWrite(n # NoName)
        /\ UNCHANGED <<chats, snapshotVars>>

\* A message the account sent to the group, from another device or through
\* the API: no contact.
OwnGroupMessage ==
    /\ Input
    /\ group' = [group EXCEPT !.chat = GroupChatName(group)]
    /\ UNCHANGED <<contacts, chats, messages, members, lookups, snapshotVars, erased>>

\* An event whose message is stored already: record_whatsapp_message returns
\* the stored message, and the lookups may still start.
RepeatedMessage(m) ==
    /\ Input
    /\ m.from # Absent
    /\ SpawnContactEnrichment(IF m.chat = GroupJid THEN m.from ELSE m.chat,
                              m.push, m.alt, m.chat)
    /\ UNCHANGED <<contacts, chats, messages, members, group, snapshotVars, erased>>

\* prepare_send_message: an API request to send in the direct conversation of
\* address j.  record_message_inner writes the contact and the conversation,
\* and a message without a sender that shows the contact's name.  Which of
\* the person's conversations a phone number stands for is a free choice.
PrepareSendMessage(j) ==
    LET cs == UpsertContact(contacts, j, NoName)
    IN  /\ Input
        /\ contacts' = cs
        /\ chats' = ChatAfter(j, cs[j].name)
        /\ messages' = messages \cup {[from |-> Absent, chat |-> j, push |-> NoName,
                                       alt |-> Absent, shown |-> cs[j].name]}
        /\ EraseAfterWrite(FALSE)
        /\ UNCHANGED <<members, group, lookups, snapshotVars>>

\* Mutant: a subject change is written to the record and not to the conversation.
SubjectOfRecordOnly(s) ==
    /\ Input
    /\ group' = [group EXCEPT !.subject = s]
    /\ UNCHANGED <<contacts, chats, messages, members, lookups, snapshotVars, erased>>

\* A GroupUpdate event that has a subject: apply_group_subject.  The lookup
\* that every GroupUpdate starts is one of GroupRefresh's.
GroupUpdate(s) ==
    /\ Input
    /\ group' = [subject |-> s, chat |-> s]
    /\ UNCHANGED <<contacts, chats, messages, members, lookups, snapshotVars, erased>>

-----------------------------------------------------------------------------
(* Lookups.                                                                *)

\* contact_refresh_context: what a lookup of j starts from, with any one of
\* the conversations of its aliases.  The other id is the canonical one, so a
\* record that is its own canonical id gives none.
RefreshContexts(j) ==
    LET aliases == Aliases(contacts[j], j)
        own == {k \in DOMAIN chats : k \in aliases \/ chats[k].owner \in aliases}
        alt == contacts[j].canonical
    IN  {[id |-> NewId, jid |-> j, alt |-> IF alt = j THEN Absent ELSE alt,
          chat |-> k, push |-> contacts[j].push, api |-> TRUE, clean |-> AllErased] :
            k \in IF own = {} THEN {j} ELSE own}

\* inspect_contact on an API request: the push name, the other id and a
\* conversation of the contact are read before the lookup is awaited.
InspectContact(j) ==
    /\ Input
    /\ Known(j)
    /\ Cardinality(lookups) < MaxLookups
    /\ \E l \in RefreshContexts(j) : lookups' = lookups \cup {l}
    /\ UNCHANGED <<contacts, chats, messages, members, group, snapshotVars, erased>>

\* apply_contact_to_conversation, for the conversation the lookup was started
\* for and those of the aliases: they change hands as well as names.
ApplyToConversations(l, aliases, name) ==
    [k \in DOMAIN chats |->
        IF k = l.chat \/ k \in aliases \/ chats[k].owner \in aliases
        THEN [owner |-> l.jid, name |-> name] ELSE chats[k]]

\* apply_contact_profile: the record and its aliases, the conversations,
\* messages and members of every alias, all with the captured push name.
ApplyContactProfile(l, p) ==
    LET cs == EnrichContact(contacts, l.jid, l.push, p)
        r == cs[l.jid]
        aliases == Aliases(r, l.jid) \cup ({p.resolved} \ {Absent})
    IN  /\ contacts' = cs
        /\ chats' = ApplyToConversations(l, aliases, r.name)
        /\ messages' = ShowName(aliases, r.name)
        /\ members' = [x \in DOMAIN members |->
               IF x \in aliases THEN r.name ELSE members[x]]
        /\ EraseAfterWrite(l.push # NoName /\ ~l.clean)

\* merge_contact_profile_alt: what the id the task knows says stands in for
\* what the answer lacks.
MergeAlt(l, p) ==
    LET q == IF l.alt = Absent THEN p ELSE ProfileFromAlt(l.jid, l.alt)
    IN  [resolved |-> IF p.resolved = Absent THEN q.resolved ELSE p.resolved,
         lid |-> IF p.lid = Absent THEN q.lid ELSE p.lid]

\* What WhatsApp may say of a contact: an address, which for a LID may be
\* either, and the LID, or neither; the LID asked for stands in for one that
\* is missing.
ContactAnswers(j) ==
    [resolved : IF IsLid(j) THEN Addresses \cup {Absent} ELSE {Phone, Absent},
     lid : {Lid, IF IsLid(j) THEN j ELSE Absent}]

\* WhatsApp answers.
LookupAnswers(l, p) ==
    /\ ApplyContactProfile(l, MergeAlt(l, p))
    /\ lookups' = lookups \ {l}
    /\ UNCHANGED <<group, inputs, snapshotVars>>

\* The lookup fails: record_contact_profile_lookup_failure, and a task that
\* an event started applies the other id the event named.
LookupFails(l) ==
    /\ IF l.alt # Absent /\ ~l.api
       THEN ApplyContactProfile(l, ProfileFromAlt(l.jid, l.alt))
       ELSE UNCHANGED <<contacts, chats, messages, members, erased>>
    /\ lookups' = lookups \ {l}
    /\ UNCHANGED <<group, inputs, snapshotVars>>

\* upsert_group_member_metadata_inner: a name is only put in the place of one
\* that was derived from the id.
MemberMetadata(cs, j) ==
    LET name == IF j \in DOMAIN cs THEN cs[j].name ELSE DisplayNameForJid(j)
    IN  Insert(members, j,
               IF j \in DOMAIN members /\ members[j] # DisplayNameForJid(j)
               THEN members[j] ELSE name)

\* What WhatsApp may say of the group: a subject, perhaps none, and the id
\* under which the person takes part, perhaps none, with or without the
\* person's phone number.
GroupAnswers ==
    [subject : Subjects \cup {NoName}, member : Addresses \cup {Absent}, phone : BOOLEAN]

\* apply_group_profile.  Nobody is removed from the members.
ApplyGroupProfile(p) ==
    LET g == [group EXCEPT !.subject = p.subject]
        cs == IF p.member # Absent /\ p.phone
              THEN UpsertContactWithAlt(contacts, p.member, NoName, Phone)
              ELSE contacts
    IN  /\ Input
        /\ contacts' = cs
        /\ members' = IF p.member = Absent THEN members ELSE MemberMetadata(cs, p.member)
        /\ group' = [g EXCEPT !.chat = GroupChatName(g)]
        /\ EraseAfterWrite(FALSE)
        /\ UNCHANGED <<chats, messages, lookups, snapshotVars>>

\* A group lookup answers.  It captured nothing when a group message, a
\* GroupUpdate or an API request began it, so its beginning is no step: the
\* answer may be as old as any of them.
GroupRefresh == \E p \in GroupAnswers : ApplyGroupProfile(p)

-----------------------------------------------------------------------------
(* Privacy and restart.                                                    *)

\* Mutant: the push name stays in the erased record.
KeepsPushName(j) ==
    /\ Known(j)
    /\ LET aliases == Aliases(contacts[j], j)
       IN  /\ contacts' = [contacts EXCEPT ![j].name = Anonymous]
           /\ chats' = [k \in DOMAIN chats |->
                  IF chats[k].owner \in aliases
                  THEN [chats[k] EXCEPT !.name = Anonymous] ELSE chats[k]]
           /\ messages' = ShowName(aliases, Anonymous)
    /\ erased' = erased \cup {j}
    /\ UNCHANGED <<members, group, lookups, inputs, snapshotVars>>

\* anonymize_contact: the record that was named, and the conversations and
\* messages of its aliases.
AnonymizeContact(j) ==
    /\ Known(j)
    /\ LET aliases == Aliases(contacts[j], j)
       IN  /\ contacts' = [contacts EXCEPT ![j].name = Anonymous, ![j].push = NoName]
           /\ chats' = [k \in DOMAIN chats |->
                  IF chats[k].owner \in aliases
                  THEN [chats[k] EXCEPT !.name = Anonymous] ELSE chats[k]]
           /\ messages' = ShowName(aliases, Anonymous)
    /\ erased' = erased \cup {j}
    /\ UNCHANGED <<members, group, lookups, inputs, snapshotVars>>

\* The task of AppState::connect writes the store it was last handed; writes
\* that fail are only logged.
WriteSnapshot ==
    /\ writes < MaxWrites
    /\ writes' = writes + 1
    /\ snapshot' = StoreNow
    /\ UNCHANGED <<contacts, chats, messages, members, group, lookups, inputs, erased>>

\* The process restarts from the snapshot, which may be older than the store;
\* tasks under way are gone.
Restart ==
    /\ contacts' = snapshot.contacts
    /\ chats' = snapshot.chats
    /\ messages' = snapshot.messages
    /\ members' = snapshot.members
    /\ group' = snapshot.group
    /\ erased' = snapshot.erased
    /\ lookups' = {}
    /\ UNCHANGED <<inputs, snapshotVars>>

Next ==
    \/ \E j \in Addresses, n \in Names \cup {NoName} :
          \E s \in SendersIn(j) \cup {Absent}, alt \in {AltOf(j), Absent} :
             DirectMessage(j, s, n, alt)
    \/ \E j \in Jids, n \in Names \cup {NoName} :
          \E alt \in {AltOf(j), Absent} : GroupMessage(j, n, alt)
    \/ OwnGroupMessage
    \/ \E m \in messages : RepeatedMessage(m)
    \/ \E j \in Addresses : PrepareSendMessage(j)
    \/ \E s \in Subjects : GroupUpdate(s)
    \/ \E j \in Jids : InspectContact(j)
    \/ \E l \in lookups : \E p \in ContactAnswers(l.jid) : LookupAnswers(l, p)
    \/ \E l \in lookups : LookupFails(l)
    \/ GroupRefresh
    \/ \E j \in Jids : AnonymizeContact(j)
    \/ WriteSnapshot
    \/ Restart

Spec == Init /\ [][Next]_vars

-----------------------------------------------------------------------------
(* Properties.                                                             *)

\* Once every id of a person that has a record was erased, no record, no
\* conversation and no message of one of those ids shows a name of that
\* person, and nothing brings one back except an event that carries a name
\* (new or repeated), a lookup that began before the erase was complete, or a
\* restart from a snapshot that is older than it: not a nameless message, an
\* API send, a lookup begun later, a group refresh or another restart
\* (anonymize_contact against the copies that enrich_contact_inner and
\* apply_contact_profile make).  Messages the account sent through the API have no
\* sender and keep the name (record_message_inner).
ErasedStaysErased ==
    AllErased =>
        /\ \A j \in DOMAIN contacts : contacts[j].name \notin Names
        /\ \A k \in DOMAIN chats : chats[k].name \notin Names
        /\ \A m \in messages : m.from \in DOMAIN contacts => m.shown \notin Names

\* The conversation of a group shows the group's subject, or the name made
\* from its id while there is none, whichever of a message, a subject change
\* and a lookup that began before it was applied last.
GroupChatShowsSubject ==
    group.chat # Absent => group.chat = GroupChatName(group)
=============================================================================
