------------------------------ MODULE Userdata ------------------------------
(***************************************************************************)
(* The organisation's definitions (src/doci/userdata): audit rules,        *)
(* dossiers with the documents they expect, knowledge entries, and the     *)
(* many-to-many link between rules and dossiers.  Every request is a few   *)
(* SQL statements on one pool of connections.  Only                        *)
(* AgentRuleService.set_dossiers opens a transaction, at PostgreSQL's      *)
(* default READ COMMITTED level, so each of its statements has a snapshot  *)
(* of its own; every other statement commits by itself, and between the    *)
(* two reads of a lookup the row that the first one found may be deleted.  *)
(* A definition keeps its identity (a UUID) for ever; its key is unique    *)
(* among the live rows of its table and may be given again once the row    *)
(* that had it is soft-deleted.  Of a row's name, body and description only *)
(* whether an update has changed them is kept.                             *)
(***************************************************************************)
EXTENDS Naturals, FiniteSets

CONSTANTS RuleIds, DossierIds, EntryIds,  \* row identities of the three tables
          RuleKeys, DossierKeys, EntryKeys,       \* their keys
          DocKeys,                        \* keys of expected documents
          Editors,                        \* requests that write in several steps
          Lookups,                        \* callers resolving a dossier key
          NoRow                           \* not a row

\* The identities are UUIDs: no two tables have one in common.
ASSUME UserdataAssumption ==
  /\ NoRow \notin RuleIds \union DossierIds \union EntryIds
  /\ RuleIds \intersect DossierIds = {}
  /\ RuleIds \intersect EntryIds = {}
  /\ DossierIds \intersect EntryIds = {}

VARIABLES defs,     \* each row: its key and whether it is free, live or deleted
          docdefs,  \* expected documents: pairs of a dossier and a key
          links,    \* committed pairs of a rule and a dossier
          edit,     \* each editor's request
          lookup    \* each caller's resolution of a dossier key

userdataVars == <<defs, docdefs, links, edit, lookup>>

DefKinds == {"rule", "dossier", "knowledge"}
DefIds == [rule |-> RuleIds, dossier |-> DossierIds, knowledge |-> EntryIds]
DefKeys == [rule |-> RuleKeys, dossier |-> DossierKeys, knowledge |-> EntryKeys]
AllIds == UNION {DefIds[kind] : kind \in DefKinds}

\* SELECT id ... WHERE key = %s AND deleted_at IS NULL: none or one row.
LiveRows(kind, keys) ==
  {i \in DefIds[kind] : defs[i].state = "live" /\ defs[i].key \subseteq keys}

\* The links of a rule whose dossiers are live, and of a dossier whose rules are.
DossiersForRule(r) == {d \in DossierIds : <<r, d>> \in links /\ defs[d].state = "live"}
RulesForDossier(d) == {r \in RuleIds : <<r, d>> \in links /\ defs[r].state = "live"}

NoEdit == [step |-> "idle", row |-> NoRow, want |-> {}, ids |-> {}, seen |-> {},
           gone |-> {}, mine |-> {}, doc |-> {}, alone |-> TRUE]
NoLookup == [step |-> "idle", key |-> {}, first |-> NoRow, second |-> NoRow,
             outcome |-> "none", quiet |-> TRUE]

UserdataInit ==
  /\ defs = [i \in AllIds |-> [key |-> {}, state |-> "free", text |-> "none"]]
  /\ docdefs = {}
  /\ links = {}
  /\ edit = [e \in Editors |-> NoEdit]
  /\ lookup = [c \in Lookups |-> NoLookup]

InTransaction(e) == edit[e].step \in {"find", "clear", "clearing", "insert"}
-----------------------------------------------------------------------------
(* Rows *)

\* The partial unique index refuses a key that a live row has.
CreateDef(kind, i, key) ==
  /\ defs[i].state = "free"
  /\ LiveRows(kind, {key}) = {}
  /\ defs' = [defs EXCEPT ![i] = [key |-> {key}, state |-> "live", text |-> "first"]]
  /\ UNCHANGED <<docdefs, links, edit, lookup>>

\* COALESCE over the fields given; the key cannot be changed.
UpdateDef(kind, key) ==
  /\ LiveRows(kind, {key}) # {}
  /\ defs' = [i \in AllIds |-> IF i \in LiveRows(kind, {key})
                                 THEN [defs[i] EXCEPT !.text = "later"] ELSE defs[i]]
  /\ UNCHANGED <<docdefs, links, edit, lookup>>

\* One UPDATE; links and expected documents of the deleted rows stay.
DeleteDefs(kind, keys) ==
  /\ LiveRows(kind, keys) # {}
  /\ defs' = [i \in AllIds |-> IF i \in LiveRows(kind, keys)
                                 THEN [defs[i] EXCEPT !.state = "deleted"] ELSE defs[i]]
  /\ lookup' = [c \in Lookups |->
                  [lookup[c] EXCEPT !.quiet = @ /\ ~(kind = "dossier"
                                                     /\ lookup[c].key \subseteq keys)]]
  /\ UNCHANGED <<docdefs, links, edit>>

\* upsert_document and delete_document find the dossier, then write.
FindDossierOf(e, key, k, step) ==
  /\ edit[e].step = "idle"
  /\ \E d \in LiveRows("dossier", {key}) :
       edit' = [edit EXCEPT ![e] = [NoEdit EXCEPT !.step = step, !.row = d, !.doc = {k}]]
  /\ UNCHANGED <<defs, docdefs, links, lookup>>

WriteDocument(e) ==
  /\ edit[e].step \in {"upsert", "remove"}
  /\ docdefs' = LET pairs == {<<edit[e].row, k>> : k \in edit[e].doc}
                IN  IF edit[e].step = "upsert" THEN docdefs \union pairs
                                               ELSE docdefs \ pairs
  /\ edit' = [edit EXCEPT ![e] = NoEdit]
  /\ UNCHANGED <<defs, links, lookup>>
-----------------------------------------------------------------------------
(* Links: one transaction *)

\* The ghost "alone" says that no other transaction on the rule overlapped.
OpenSet(e, key, want) ==
  /\ edit[e].step = "idle"
  /\ \E r \in LiveRows("rule", {key}) :
       LET others == {f \in Editors : InTransaction(f) /\ edit[f].row = r}
       IN  edit' = [f \in Editors |->
                      IF f = e
                        THEN [NoEdit EXCEPT !.step = "find", !.row = r, !.want = want,
                                            !.alone = others = {}]
                        ELSE [edit[f] EXCEPT !.alone = @ /\ f \notin others]]
  /\ UNCHANGED <<defs, docdefs, links, lookup>>

\* One SELECT for all the keys; a key without a live dossier rolls back.
FindDossiers(e) ==
  /\ edit[e].step = "find"
  /\ LET found == LiveRows("dossier", edit[e].want)
     IN  IF UNION {defs[d].key : d \in found} = edit[e].want
           THEN edit' = [edit EXCEPT ![e].step = "clear", ![e].ids = found]
           ELSE edit' = [edit EXCEPT ![e] = NoEdit]
  /\ UNCHANGED <<defs, docdefs, links, lookup>>

\* The DELETE takes its snapshot ...
StartClear(e) ==
  /\ edit[e].step = "clear"
  /\ edit' = [edit EXCEPT ![e].step = "clearing",
                          ![e].seen = {d \in DossierIds : <<edit[e].row, d>> \in links}]
  /\ UNCHANGED <<defs, docdefs, links, lookup>>

Others(e) == {f \in Editors \ {e} : InTransaction(f) /\ edit[f].row = edit[e].row}
BeingDeleted(e) == UNION {edit[f].gone : f \in Others(e)}
BeingAdded(e) == UNION {edit[f].mine : f \in Others(e)}

\* Mutant: nothing is deleted when no dossier is wanted.
FinishClearIfWanted(e) ==
  /\ edit[e].step = "clearing"
  /\ edit[e].seen \intersect BeingDeleted(e) = {}
  /\ edit' = [edit EXCEPT ![e].step = "insert", ![e].seen = {},
                          ![e].gone = IF edit[e].ids = {} THEN {} ELSE edit[e].seen]
  /\ UNCHANGED <<defs, docdefs, links, lookup>>

\* ... waits for the transactions that are deleting the same rows, and deletes
\* those of its snapshot that none of them has deleted.
FinishClear(e) ==
  /\ edit[e].step = "clearing"
  /\ edit[e].seen \intersect BeingDeleted(e) = {}
  /\ edit' = [edit EXCEPT ![e].step = "insert", ![e].seen = {},
                          ![e].gone = edit[e].seen]
  /\ UNCHANGED <<defs, docdefs, links, lookup>>

\* The primary key makes an INSERT wait for a transaction that is writing the
\* same pair, and fail on a committed pair that this one did not delete.
InsertLink(e, d) ==
  /\ edit[e].step = "insert"
  /\ d \in edit[e].ids \ edit[e].mine
  /\ d \notin BeingDeleted(e) \union BeingAdded(e)
  /\ edit' = IF <<edit[e].row, d>> \in links /\ d \notin edit[e].gone
               THEN [edit EXCEPT ![e] = NoEdit]
               ELSE [edit EXCEPT ![e].mine = @ \union {d}]
  /\ UNCHANGED <<defs, docdefs, links, lookup>>

\* A DELETE that waited skips the rows that were deleted: those inserted in
\* their place are not in its snapshot.
CommitSet(e) ==
  /\ edit[e].step = "insert"
  /\ edit[e].mine = edit[e].ids
  /\ links' = (links \ {<<edit[e].row, d>> : d \in edit[e].gone})
                \union {<<edit[e].row, d>> : d \in edit[e].mine}
  /\ edit' = [f \in Editors |->
                IF f = e THEN NoEdit
                ELSE [edit[f] EXCEPT !.seen = IF edit[f].row = edit[e].row
                                                THEN @ \ edit[e].gone ELSE @]]
  /\ UNCHANGED <<defs, docdefs, lookup>>

\* An error of the connection, or the victim of a deadlock: rolled back.
AbortSet(e) ==
  /\ InTransaction(e)
  /\ edit' = [edit EXCEPT ![e] = NoEdit]
  /\ UNCHANGED <<defs, docdefs, links, lookup>>
-----------------------------------------------------------------------------
(* Resolving a dossier key: resolve_dossier_spec and the tool get_dossier_spec *)

\* Mutant: get_dossier answers a deleted row too.
GetDossierAnyState(c, key) ==
  /\ lookup[c].step = "idle"
  /\ \E d \in DossierIds :
       /\ defs[d].key = {key}
       /\ lookup' = [lookup EXCEPT ![c] = [NoLookup EXCEPT !.step = "list", !.key = {key},
                                                           !.first = d]]
  /\ UNCHANGED <<defs, docdefs, links, edit>>

GetDossier(c, key) ==
  /\ lookup[c].step = "idle"
  /\ lookup' = [lookup EXCEPT ![c] =
       IF LiveRows("dossier", {key}) = {}
         THEN [NoLookup EXCEPT !.step = "done", !.key = {key}]
         ELSE [NoLookup EXCEPT !.step = "list", !.key = {key},
                               !.first = CHOOSE d \in LiveRows("dossier", {key}) : TRUE]]
  /\ UNCHANGED <<defs, docdefs, links, edit>>

\* list_documents looks the key up again, outside the try of its caller.
ListDocuments(c) ==
  /\ lookup[c].step = "list"
  /\ LET found == LiveRows("dossier", lookup[c].key)
     IN  lookup' = IF found = {}
                     THEN [lookup EXCEPT ![c].step = "done", ![c].outcome = "failed"]
                     ELSE [lookup EXCEPT ![c].step = "done", ![c].outcome = "spec",
                                         ![c].second = CHOOSE d \in found : TRUE]
  /\ UNCHANGED <<defs, docdefs, links, edit>>
-----------------------------------------------------------------------------
CreateRule(i, key) == CreateDef("rule", i, key)
CreateDossier(i, key) == CreateDef("dossier", i, key)
CreateKnowledge(i, key) == CreateDef("knowledge", i, key)
UpdateRule(key) == UpdateDef("rule", key)
UpdateDossier(key) == UpdateDef("dossier", key)
UpdateKnowledge(key) == UpdateDef("knowledge", key)
DeleteRules(keys) == DeleteDefs("rule", keys)
DeleteDossiers(keys) == DeleteDefs("dossier", keys)
DeleteKnowledge(keys) == DeleteDefs("knowledge", keys)

RuleNext ==
  \/ \E key \in RuleKeys : UpdateRule(key) \/ \E i \in RuleIds : CreateRule(i, key)
  \/ \E keys \in (SUBSET RuleKeys) \ {{}} : DeleteRules(keys)

DossierNext ==
  \/ \E key \in DossierKeys : UpdateDossier(key) \/ \E i \in DossierIds : CreateDossier(i, key)
  \/ \E keys \in (SUBSET DossierKeys) \ {{}} : DeleteDossiers(keys)

KnowledgeNext ==
  \/ \E key \in EntryKeys : UpdateKnowledge(key) \/ \E i \in EntryIds : CreateKnowledge(i, key)
  \/ \E keys \in (SUBSET EntryKeys) \ {{}} : DeleteKnowledge(keys)

RowNext == RuleNext \/ DossierNext \/ KnowledgeNext

DocumentNext ==
  \E e \in Editors :
    \/ \E key \in DossierKeys, k \in DocKeys, step \in {"upsert", "remove"} :
         FindDossierOf(e, key, k, step)
    \/ WriteDocument(e)

LinkNext ==
  \E e \in Editors :
    \/ \E key \in RuleKeys, want \in SUBSET DossierKeys : OpenSet(e, key, want)
    \/ FindDossiers(e)
    \/ StartClear(e)
    \/ FinishClear(e)
    \/ \E d \in DossierIds : InsertLink(e, d)
    \/ CommitSet(e)
    \/ AbortSet(e)

LookupNext ==
  \E c \in Lookups :
    \/ \E key \in DossierKeys : GetDossier(c, key)
    \/ ListDocuments(c)

UserdataNext == RowNext \/ DocumentNext \/ LinkNext \/ LookupNext

UserdataSpec == UserdataInit /\ [][UserdataNext]_userdataVars
-----------------------------------------------------------------------------
(* Properties *)

\* Every variable keeps its type.
UserdataTypeOK ==
  /\ defs \in [AllIds -> [key : SUBSET UNION {DefKeys[kind] : kind \in DefKinds},
                          state : {"free", "live", "deleted"},
                          text : {"none", "first", "later"}]]
  /\ docdefs \subseteq DossierIds \X DocKeys
  /\ links \subseteq RuleIds \X DossierIds
  /\ edit \in [Editors -> [step : {"idle", "find", "clear", "clearing", "insert",
                                   "upsert", "remove"},
                           row : RuleIds \union DossierIds \union {NoRow},
                           want : SUBSET DossierKeys, ids : SUBSET DossierIds,
                           seen : SUBSET DossierIds, gone : SUBSET DossierIds,
                           mine : SUBSET DossierIds, doc : SUBSET DocKeys,
                           alone : BOOLEAN]]
  /\ lookup \in [Lookups -> [step : {"idle", "list", "done"}, key : SUBSET DossierKeys,
                             first : DossierIds \union {NoRow},
                             second : DossierIds \union {NoRow},
                             outcome : {"none", "spec", "failed"}, quiet : BOOLEAN]]

\* After the commit both directions of the link read what was asked for.
Replaced(e) ==
  \A r \in {edit[e].row} :
    /\ UNION {defs[d].key : d \in edit[e].ids} = edit[e].want
    /\ DossiersForRule(r)' = {d \in edit[e].ids : defs[d].state = "live"}
    /\ defs[r].state = "live" =>
         \A d \in DossierIds : r \in RulesForDossier(d)' <=> d \in edit[e].ids

\* A set_dossiers call that commits leaves the rule linked to exactly the
\* dossiers it was given, read from either side (service.py: "Replace the
\* rule's linked dossiers with dossier_keys (transactional)").
SetReplaces == [][\A e \in Editors : CommitSet(e) => Replaced(e)]_userdataVars

\* It does when no other call on the same rule overlapped it, whatever aborted
\* before and whatever definitions were deleted or created again meanwhile.
LoneSetReplaces ==
  [][\A e \in Editors : CommitSet(e) /\ edit[e].alone => Replaced(e)]_userdataVars

\* Unless a dossier with the key is deleted between its two reads, a lookup
\* does not fail, and the dossier and the documents it returns are of one row.
QuietLookup ==
  \A c \in Lookups :
    lookup[c].step = "done" /\ lookup[c].quiet =>
      /\ lookup[c].outcome # "failed"
      /\ lookup[c].first = lookup[c].second
=============================================================================
