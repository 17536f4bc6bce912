--------------------------- MODULE UserdataProofs ---------------------------
(***************************************************************************)
(* Definitions, their links and the lookup of a dossier key, for any keys, *)
(* ids and numbers of requests.  Two inductive invariants:                 *)
(*   - Steady: at most one live dossier has a key (Keyed, the partial      *)
(*     unique index), and a lookup that no deletion met still holds the    *)
(*     live row it found (Holding), so its second read finds the same one; *)
(*   - Lone: a set_dossiers transaction keeps the dossiers it resolved     *)
(*     (Resolved), and one that no other call on its rule met has seen,    *)
(*     then deleted, exactly the links that were there (Unmet).            *)
(* Both rest on the ids of the tables being apart (UserdataAssumption): a  *)
(* write of one table leaves the rows of the others alone.                 *)
(***************************************************************************)
EXTENDS Userdata, TLAPS

USE UserdataAssumption DEF UserdataAssumption

AllKeys == UNION {DefKeys[kind] : kind \in DefKinds}
Defs == [key : SUBSET AllKeys, state : {"free", "live", "deleted"},
         text : {"none", "first", "later"}]
EditSteps == {"idle", "find", "clear", "clearing", "insert", "upsert", "remove"}
Edits == [step : EditSteps, row : RuleIds \union DossierIds \union {NoRow},
          want : SUBSET DossierKeys, ids : SUBSET DossierIds,
          seen : SUBSET DossierIds, gone : SUBSET DossierIds,
          mine : SUBSET DossierIds, doc : SUBSET DocKeys, alone : BOOLEAN]
LookupCalls == [step : {"idle", "list", "done"}, key : SUBSET DossierKeys,
                first : DossierIds \union {NoRow}, second : DossierIds \union {NoRow},
                outcome : {"none", "spec", "failed"}, quiet : BOOLEAN]

-----------------------------------------------------------------------------
(* The three tables, by kind. *)
LEMMA Tables ==
    /\ \A kind \in DefKinds : DefIds[kind] \subseteq AllIds
    /\ \A kind \in DefKinds : DefKeys[kind] \subseteq AllKeys
    /\ {"rule", "dossier", "knowledge"} = DefKinds
    /\ DefIds["rule"] = RuleIds /\ DefIds["dossier"] = DossierIds
    /\ DefIds["knowledge"] = EntryIds
    /\ DefKeys["rule"] = RuleKeys /\ DefKeys["dossier"] = DossierKeys
    /\ DefKeys["knowledge"] = EntryKeys
    /\ RuleIds \subseteq AllIds /\ DossierIds \subseteq AllIds
BY DEF DefKinds, DefIds, DefKeys, AllIds, AllKeys

(* UserdataTypeOK with its record sets by name, now and after a step. *)
LEMMA TypeUnfolds ==
    UserdataTypeOK <=>
      /\ defs \in [AllIds -> Defs]
      /\ docdefs \subseteq DossierIds \X DocKeys
      /\ links \subseteq RuleIds \X DossierIds
      /\ edit \in [Editors -> Edits]
      /\ lookup \in [Lookups -> LookupCalls]
BY DEF UserdataTypeOK, Defs, AllKeys, Edits, EditSteps, LookupCalls

LEMMA TypeUnfoldsNext ==
    UserdataTypeOK' <=>
      /\ defs' \in [AllIds -> Defs]
      /\ docdefs' \subseteq DossierIds \X DocKeys
      /\ links' \subseteq RuleIds \X DossierIds
      /\ edit' \in [Editors -> Edits]
      /\ lookup' \in [Lookups -> LookupCalls]
BY DEF UserdataTypeOK, Defs, AllKeys, Edits, EditSteps, LookupCalls

LEMMA LiveRowsOf ==
    ASSUME NEW kind \in DefKinds, NEW keys
    PROVE  /\ LiveRows(kind, keys) \subseteq DefIds[kind]
           /\ LiveRows(kind, keys) \subseteq AllIds
           /\ \A i \in AllIds : i \in LiveRows(kind, keys) <=>
                i \in DefIds[kind] /\ defs[i].state = "live" /\ defs[i].key \subseteq keys
BY Tables DEF LiveRows

LEMMA NoEditType == NoEdit \in Edits /\ NoEdit.step = "idle"
BY DEF NoEdit, Edits, EditSteps

LEMMA NoLookupType == NoLookup \in LookupCalls
BY DEF NoLookup, LookupCalls

(* What creating, updating and deleting definitions makes of the rows. *)
LEMMA CreateMoves ==
    ASSUME UserdataTypeOK, NEW kind \in DefKinds, NEW i \in DefIds[kind],
           NEW key \in DefKeys[kind], CreateDef(kind, i, key)
    PROVE  /\ UserdataTypeOK'
           /\ defs[i].state = "free" /\ defs'[i].state = "live" /\ defs'[i].key = {key}
           /\ \A j \in AllIds : j # i => defs'[j] = defs[j]
<1> DEFINE row == [key |-> {key}, state |-> "live", text |-> "first"]
<1>1. i \in AllIds /\ key \in AllKeys BY Tables
<1>2. row \in Defs BY <1>1 DEF Defs
<1>3. defs' = [defs EXCEPT ![i] = row] BY DEF CreateDef
<1>4. defs \in [AllIds -> Defs] BY TypeUnfolds
<1>5. row.state = "live" /\ row.key = {key} OBVIOUS
<1> HIDE DEF row
<1>6. defs' \in [AllIds -> Defs] /\ defs'[i] = row
      /\ \A j \in AllIds : j # i => defs'[j] = defs[j]
  BY <1>1, <1>2, <1>3, <1>4
<1>7. UserdataTypeOK' BY <1>6, TypeUnfolds, TypeUnfoldsNext DEF CreateDef
<1> QED BY <1>5, <1>6, <1>7 DEF CreateDef

LEMMA UpdateMoves ==
    ASSUME UserdataTypeOK, NEW kind \in DefKinds, NEW key \in DefKeys[kind],
           UpdateDef(kind, key)
    PROVE  /\ UserdataTypeOK'
           /\ \A j \in AllIds : defs'[j].state = defs[j].state /\ defs'[j].key = defs[j].key
<1>1. defs \in [AllIds -> Defs] BY TypeUnfolds
<1> DEFINE row(i) == IF i \in LiveRows(kind, {key}) THEN [defs[i] EXCEPT !.text = "later"]
                     ELSE defs[i]
<1>2. ASSUME NEW i \in AllIds
      PROVE  row(i) \in Defs /\ row(i).state = defs[i].state /\ row(i).key = defs[i].key
  <2>1. defs[i] \in Defs BY <1>1
  <2> QED BY <2>1 DEF Defs
<1>3. defs' = [i \in AllIds |-> row(i)] BY DEF UpdateDef
<1> HIDE DEF row
<1>4. defs' \in [AllIds -> Defs] BY <1>2, <1>3
<1>5. UserdataTypeOK' BY <1>4, TypeUnfolds, TypeUnfoldsNext DEF UpdateDef
<1> QED BY <1>2, <1>3, <1>5

LEMMA DeleteMoves ==
    ASSUME UserdataTypeOK, NEW kind \in DefKinds, NEW keys \in SUBSET DefKeys[kind],
           DeleteDefs(kind, keys)
    PROVE  /\ UserdataTypeOK'
           /\ \A j \in AllIds :
                /\ defs'[j].key = defs[j].key
                /\ defs'[j].state = IF j \in LiveRows(kind, keys) THEN "deleted"
                                    ELSE defs[j].state
           /\ \A c \in Lookups :
                /\ lookup'[c].step = lookup[c].step
                /\ lookup'[c].key = lookup[c].key
                /\ lookup'[c].first = lookup[c].first
                /\ lookup'[c].second = lookup[c].second
                /\ lookup'[c].outcome = lookup[c].outcome
                /\ lookup'[c].quiet <=>
                     lookup[c].quiet /\ ~(kind = "dossier" /\ lookup[c].key \subseteq keys)
<1>1. defs \in [AllIds -> Defs] /\ lookup \in [Lookups -> LookupCalls] BY TypeUnfolds
<1> DEFINE row(i) == IF i \in LiveRows(kind, keys) THEN [defs[i] EXCEPT !.state = "deleted"]
                     ELSE defs[i]
           call(c) == [lookup[c] EXCEPT !.quiet = @ /\ ~(kind = "dossier"
                                                         /\ lookup[c].key \subseteq keys)]
<1>2. ASSUME NEW i \in AllIds
      PROVE  /\ row(i) \in Defs /\ row(i).key = defs[i].key
             /\ row(i).state = IF i \in LiveRows(kind, keys) THEN "deleted" ELSE defs[i].state
  <2>1. defs[i] \in Defs BY <1>1
  <2> QED BY <2>1 DEF Defs
<1>3. ASSUME NEW c \in Lookups
      PROVE  /\ call(c) \in LookupCalls
             /\ call(c).step = lookup[c].step
             /\ call(c).key = lookup[c].key
             /\ call(c).first = lookup[c].first
             /\ call(c).second = lookup[c].second
             /\ call(c).outcome = lookup[c].outcome
             /\ call(c).quiet <=>
                  lookup[c].quiet /\ ~(kind = "dossier" /\ lookup[c].key \subseteq keys)
  <2>1. lookup[c] \in LookupCalls BY <1>1
  <2> QED BY <2>1 DEF LookupCalls
<1>4. defs' = [i \in AllIds |-> row(i)] /\ lookup' = [c \in Lookups |-> call(c)]
  BY DEF DeleteDefs
<1> HIDE DEF row, call
<1>5. defs' \in [AllIds -> Defs] /\ lookup' \in [Lookups -> LookupCalls]
  BY <1>2, <1>3, <1>4
<1>6. UserdataTypeOK' BY <1>5, TypeUnfolds, TypeUnfoldsNext DEF DeleteDefs
<1> QED BY <1>2, <1>3, <1>4, <1>6

(* RowNext is one of the three, on one of the tables.                         *)
LEMMA RowActions ==
    ASSUME RowNext
    PROVE  \E kind \in DefKinds :
             \/ \E i \in DefIds[kind], key \in DefKeys[kind] : CreateDef(kind, i, key)
             \/ \E key \in DefKeys[kind] : UpdateDef(kind, key)
             \/ \E keys \in SUBSET DefKeys[kind] : DeleteDefs(kind, keys)
BY Tables
   DEF RowNext, RuleNext, DossierNext, KnowledgeNext, CreateRule, CreateDossier,
       CreateKnowledge, UpdateRule, UpdateDossier, UpdateKnowledge, DeleteRules,
       DeleteDossiers, DeleteKnowledge

-----------------------------------------------------------------------------
LEMMA SetEdit ==
    ASSUME UserdataTypeOK, NEW e \in Editors, NEW call \in Edits,
           edit' = [edit EXCEPT ![e] = call]
    PROVE  /\ edit' \in [Editors -> Edits]
           /\ edit'[e] = call
           /\ \A f \in Editors : f # e => edit'[f] = edit[f]
BY TypeUnfolds

(* The steps of a request that writes, other than opening and committing a    *)
(* transaction: the other requests keep what they have.                       *)
EditAction(e) ==
    \/ \E key \in DossierKeys, k \in DocKeys, step \in {"upsert", "remove"} :
         FindDossierOf(e, key, k, step)
    \/ WriteDocument(e) \/ FindDossiers(e) \/ StartClear(e) \/ FinishClear(e)
    \/ \E d \in DossierIds : InsertLink(e, d)
    \/ AbortSet(e)

LEMMA OpenMoves ==
    ASSUME UserdataTypeOK, NEW e \in Editors, NEW key \in RuleKeys,
           NEW want \in SUBSET DossierKeys, OpenSet(e, key, want)
    PROVE  /\ UserdataTypeOK'
           /\ edit[e].step = "idle" /\ edit'[e].step = "find"
           /\ edit'[e].row \in RuleIds
           /\ edit'[e].alone => \A f \in Editors :
                InTransaction(f) => edit[f].row # edit'[e].row
           /\ \A f \in Editors \ {e} :
                /\ edit'[f].step = edit[f].step /\ edit'[f].row = edit[f].row
                /\ edit'[f].want = edit[f].want /\ edit'[f].ids = edit[f].ids
                /\ edit'[f].seen = edit[f].seen /\ edit'[f].gone = edit[f].gone
                /\ edit'[f].mine = edit[f].mine
                /\ edit'[f].alone =>
                     edit[f].alone /\ ~(InTransaction(f) /\ edit[f].row = edit'[e].row)
<1>1. edit \in [Editors -> Edits] BY TypeUnfolds
<1>2. PICK r \in LiveRows("rule", {key}) :
        LET others == {f \in Editors : InTransaction(f) /\ edit[f].row = r}
        IN  edit' = [f \in Editors |->
                      IF f = e
                        THEN [NoEdit EXCEPT !.step = "find", !.row = r, !.want = want,
                                            !.alone = others = {}]
                        ELSE [edit[f] EXCEPT !.alone = @ /\ f \notin others]]
  BY DEF OpenSet
<1>3. r \in RuleIds BY LiveRowsOf, Tables
<1> DEFINE others == {f \in Editors : InTransaction(f) /\ edit[f].row = r}
           mine == [NoEdit EXCEPT !.step = "find", !.row = r, !.want = want,
                                  !.alone = others = {}]
           theirs(f) == [edit[f] EXCEPT !.alone = @ /\ f \notin others]
<1>4. /\ mine \in Edits /\ mine.step = "find" /\ mine.row = r
      /\ mine.alone <=> others = {}
  BY <1>3 DEF NoEdit, Edits, EditSteps
<1>5. ASSUME NEW f \in Editors
      PROVE  /\ theirs(f) \in Edits
             /\ theirs(f).step = edit[f].step /\ theirs(f).row = edit[f].row
             /\ theirs(f).want = edit[f].want /\ theirs(f).ids = edit[f].ids
             /\ theirs(f).seen = edit[f].seen /\ theirs(f).gone = edit[f].gone
             /\ theirs(f).mine = edit[f].mine
             /\ theirs(f).alone => edit[f].alone /\ f \notin others
  <2>1. edit[f] \in Edits BY <1>1
  <2> HIDE DEF others
  <2> QED BY <2>1 DEF Edits
<1>6. edit' = [f \in Editors |-> IF f = e THEN mine ELSE theirs(f)] BY <1>2
<1>7. \A f \in Editors : InTransaction(f) /\ edit[f].row = r => f \in others OBVIOUS
<1> HIDE DEF mine, theirs, others
<1>8. /\ edit' \in [Editors -> Edits] /\ edit'[e] = mine
      /\ \A f \in Editors \ {e} : edit'[f] = theirs(f)
  BY <1>4, <1>5, <1>6
<1>9. UserdataTypeOK' BY <1>8, TypeUnfolds, TypeUnfoldsNext DEF OpenSet
<1>10. edit[e].step = "idle" BY DEF OpenSet
<1>11. edit'[e].alone => \A f \in Editors : InTransaction(f) => edit[f].row # edit'[e].row
  BY <1>4, <1>7, <1>8
<1>12. \A f \in Editors \ {e} : edit'[f].alone =>
         edit[f].alone /\ ~(InTransaction(f) /\ edit[f].row = edit'[e].row)
  BY <1>4, <1>5, <1>7, <1>8
<1>13. \A f \in Editors \ {e} :
         /\ edit'[f].step = edit[f].step /\ edit'[f].row = edit[f].row
         /\ edit'[f].want = edit[f].want /\ edit'[f].ids = edit[f].ids
         /\ edit'[f].seen = edit[f].seen /\ edit'[f].gone = edit[f].gone
         /\ edit'[f].mine = edit[f].mine
  BY <1>5, <1>8
<1>14. edit'[e].step = "find" /\ edit'[e].row \in RuleIds BY <1>3, <1>4, <1>8
<1> QED BY <1>9, <1>10, <1>11, <1>12, <1>13, <1>14

LEMMA FindDossierMoves ==
    ASSUME UserdataTypeOK, NEW e \in Editors, NEW key \in DossierKeys, NEW k \in DocKeys,
           NEW step \in {"upsert", "remove"}, FindDossierOf(e, key, k, step)
    PROVE  \E call \in Edits :
             edit' = [edit EXCEPT ![e] = call] /\ call.step = step /\ call.row \in DossierIds
<1>1. PICK d \in LiveRows("dossier", {key}) :
        edit' = [edit EXCEPT ![e] = [NoEdit EXCEPT !.step = step, !.row = d, !.doc = {k}]]
  BY DEF FindDossierOf
<1>2. d \in DossierIds BY LiveRowsOf, Tables
<1> DEFINE call == [NoEdit EXCEPT !.step = step, !.row = d, !.doc = {k}]
<1>3. call \in Edits /\ call.step = step /\ call.row = d BY <1>2 DEF NoEdit, Edits, EditSteps
<1> QED BY <1>1, <1>2, <1>3

(* What each step of a transaction makes of its own record.                   *)
LEMMA FindMoves ==
    ASSUME UserdataTypeOK, NEW e \in Editors, FindDossiers(e)
    PROVE  \E call \in Edits :
             /\ edit' = [edit EXCEPT ![e] = call]
             /\ \/ call = NoEdit
                \/ /\ call.step = "clear" /\ call.row = edit[e].row
                   /\ call.alone = edit[e].alone
                   /\ call.want = edit[e].want
                   /\ call.ids = LiveRows("dossier", edit[e].want)
                   /\ UNION {defs[d].key : d \in call.ids} = call.want
<1>1. edit \in [Editors -> Edits] /\ edit[e] \in Edits BY TypeUnfolds
<1> DEFINE found == LiveRows("dossier", edit[e].want)
           call == [edit[e] EXCEPT !.step = "clear", !.ids = found]
<1>2. found \in SUBSET DossierIds BY LiveRowsOf, Tables
<1> HIDE DEF found
<1>3. /\ call \in Edits /\ call.step = "clear" /\ call.row = edit[e].row
      /\ call.alone = edit[e].alone /\ call.want = edit[e].want /\ call.ids = found
  BY <1>1, <1>2 DEF Edits, EditSteps
<1>4. CASE edit' = [edit EXCEPT ![e] = NoEdit] BY <1>4, NoEditType
<1>5. CASE /\ UNION {defs[d].key : d \in found} = edit[e].want
           /\ edit' = [edit EXCEPT ![e].step = "clear", ![e].ids = found]
  <2>1. edit' = [edit EXCEPT ![e] = call] BY <1>1, <1>5
  <2> QED BY <1>3, <1>5, <2>1 DEF found
<1> QED BY <1>4, <1>5 DEF FindDossiers, found

LEMMA StartMoves ==
    ASSUME UserdataTypeOK, NEW e \in Editors, StartClear(e)
    PROVE  \E call \in Edits :
             /\ edit' = [edit EXCEPT ![e] = call]
             /\ call.step = "clearing" /\ call.row = edit[e].row
             /\ call.alone = edit[e].alone
             /\ call.want = edit[e].want /\ call.ids = edit[e].ids
             /\ call.seen = {d \in DossierIds : <<edit[e].row, d>> \in links}
<1>1. edit \in [Editors -> Edits] /\ edit[e] \in Edits BY TypeUnfolds
<1> DEFINE linked == {d \in DossierIds : <<edit[e].row, d>> \in links}
           call == [edit[e] EXCEPT !.step = "clearing", !.seen = linked]
<1>2. linked \in SUBSET DossierIds OBVIOUS
<1>3. edit' = [edit EXCEPT ![e].step = "clearing", ![e].seen = linked] BY DEF StartClear
<1> HIDE DEF linked
<1>4. /\ call \in Edits /\ call.step = "clearing" /\ call.row = edit[e].row
      /\ call.alone = edit[e].alone /\ call.want = edit[e].want
      /\ call.ids = edit[e].ids /\ call.seen = linked
  BY <1>1, <1>2 DEF Edits, EditSteps
<1>5. edit' = [edit EXCEPT ![e] = call] BY <1>1, <1>3
<1> QED BY <1>4, <1>5 DEF linked

LEMMA FinishMoves ==
    ASSUME UserdataTypeOK, NEW e \in Editors, FinishClear(e)
    PROVE  \E call \in Edits :
             /\ edit' = [edit EXCEPT ![e] = call]
             /\ call.step = "insert" /\ call.row = edit[e].row
             /\ call.alone = edit[e].alone
             /\ call.want = edit[e].want /\ call.ids = edit[e].ids
             /\ call.gone = edit[e].seen
<1>1. edit \in [Editors -> Edits] /\ edit[e] \in Edits BY TypeUnfolds
<1> DEFINE still == edit[e].seen
           call == [edit[e] EXCEPT !.step = "insert", !.seen = {}, !.gone = still]
<1>2. still \in SUBSET DossierIds BY <1>1 DEF Edits
<1>3. edit' = [edit EXCEPT ![e].step = "insert", ![e].seen = {}, ![e].gone = still]
  BY DEF FinishClear
<1> HIDE DEF still
<1>4. /\ call \in Edits /\ call.step = "insert" /\ call.row = edit[e].row
      /\ call.alone = edit[e].alone /\ call.want = edit[e].want
      /\ call.ids = edit[e].ids /\ call.gone = still
  BY <1>1, <1>2 DEF Edits, EditSteps
<1>5. edit' = [edit EXCEPT ![e] = call] BY <1>1, <1>3
<1> QED BY <1>4, <1>5 DEF still

LEMMA InsertMoves ==
    ASSUME UserdataTypeOK, NEW e \in Editors, NEW d \in DossierIds, InsertLink(e, d)
    PROVE  \E call \in Edits :
             /\ edit' = [edit EXCEPT ![e] = call]
             /\ \/ call = NoEdit
                \/ /\ call.step = edit[e].step /\ call.row = edit[e].row
                   /\ call.alone = edit[e].alone
                   /\ call.want = edit[e].want /\ call.ids = edit[e].ids
                   /\ call.gone = edit[e].gone
<1>1. edit \in [Editors -> Edits] /\ edit[e] \in Edits BY TypeUnfolds
<1> DEFINE call == [edit[e] EXCEPT !.mine = edit[e].mine \union {d}]
<1>2. /\ call \in Edits /\ call.step = edit[e].step /\ call.row = edit[e].row
      /\ call.alone = edit[e].alone /\ call.want = edit[e].want
      /\ call.ids = edit[e].ids /\ call.gone = edit[e].gone
  BY <1>1 DEF Edits
<1>3. CASE edit' = [edit EXCEPT ![e] = NoEdit] BY <1>3, NoEditType
<1>4. CASE edit' = [edit EXCEPT ![e].mine = edit[e].mine \union {d}]
  <2>1. edit' = [edit EXCEPT ![e] = call] BY <1>1, <1>4
  <2> QED BY <1>2, <2>1
<1> QED BY <1>3, <1>4 DEF InsertLink

(* A step of a request that neither opens nor commits a transaction.          *)
LEMMA EditMoves ==
    ASSUME UserdataTypeOK, NEW e \in Editors, EditAction(e)
    PROVE  \E call \in Edits :
             /\ edit' = [edit EXCEPT ![e] = call]
             /\ \/ call.step = "idle"
                \/ call.step \in {"upsert", "remove"} /\ call.row \in DossierIds
                \/ /\ InTransaction(e) /\ call.step \in {"clear", "clearing", "insert"}
                   /\ call.row = edit[e].row /\ call.alone = edit[e].alone
<1>1. CASE \E key \in DossierKeys, k \in DocKeys, step \in {"upsert", "remove"} :
             FindDossierOf(e, key, k, step)
  BY <1>1, FindDossierMoves
<1>2. CASE WriteDocument(e) \/ AbortSet(e)
  BY <1>2, NoEditType DEF WriteDocument, AbortSet
<1>3. CASE FindDossiers(e)
  BY <1>3, FindMoves, NoEditType DEF FindDossiers, InTransaction
<1>4. CASE StartClear(e) BY <1>4, StartMoves DEF StartClear, InTransaction
<1>5. CASE FinishClear(e) BY <1>5, FinishMoves DEF FinishClear, InTransaction
<1>6. CASE \E d \in DossierIds : InsertLink(e, d)
  <2>1. PICK d \in DossierIds : InsertLink(e, d) BY <1>6
  <2>2. edit[e].step = "insert" BY <2>1 DEF InsertLink
  <2>3. InTransaction(e) BY <2>2 DEF InTransaction
  <2> QED BY <2>1, <2>2, <2>3, InsertMoves, NoEditType
<1> QED BY <1>1, <1>2, <1>3, <1>4, <1>5, <1>6 DEF EditAction

-----------------------------------------------------------------------------
(* A transaction is about a rule, a write of documents about a dossier.       *)
Placed ==
    \A e \in Editors :
      /\ InTransaction(e) => edit[e].row \in RuleIds
      /\ edit[e].step \in {"upsert", "remove"} => edit[e].row \in DossierIds

LEMMA EditType ==
    ASSUME UserdataTypeOK, Placed, NEW e \in Editors, EditAction(e)
    PROVE  UserdataTypeOK'
<1>1. edit \in [Editors -> Edits] /\ edit[e] \in Edits BY TypeUnfolds
<1>2. edit' \in [Editors -> Edits] BY EditMoves, SetEdit
<1>3. UNCHANGED <<defs, lookup>>
  BY DEF EditAction, FindDossierOf, WriteDocument, FindDossiers, StartClear, FinishClear,
         InsertLink, AbortSet
<1>4. docdefs' \subseteq DossierIds \X DocKeys
  <2>1. docdefs \subseteq DossierIds \X DocKeys BY TypeUnfolds
  <2>2. CASE WriteDocument(e)
    <3> DEFINE pairs == {<<edit[e].row, k>> : k \in edit[e].doc}
    <3>1. edit[e].row \in DossierIds BY <2>2 DEF WriteDocument, Placed
    <3>2. edit[e].doc \subseteq DocKeys BY <1>1 DEF Edits
    <3>3. pairs \subseteq DossierIds \X DocKeys BY <3>1, <3>2
    <3>4. docdefs' = docdefs \union pairs \/ docdefs' = docdefs \ pairs
      BY <2>2 DEF WriteDocument
    <3> HIDE DEF pairs
    <3> QED BY <2>1, <3>3, <3>4
  <2>3. CASE ~WriteDocument(e)
    BY <2>1, <2>3
       DEF EditAction, FindDossierOf, FindDossiers, StartClear, FinishClear, InsertLink,
           AbortSet
  <2> QED BY <2>2, <2>3
<1>5. links' \subseteq RuleIds \X DossierIds
  BY TypeUnfolds
     DEF EditAction, FindDossierOf, WriteDocument, FindDossiers, StartClear, FinishClear,
         InsertLink, AbortSet
<1> QED BY <1>2, <1>3, <1>4, <1>5, TypeUnfolds, TypeUnfoldsNext

(* A commit ends its own transaction, writes the links of its own rule, and    *)
(* takes from what the others have seen on that rule.                          *)
LEMMA CommitMoves ==
    ASSUME UserdataTypeOK, Placed, NEW e \in Editors, CommitSet(e)
    PROVE  /\ UserdataTypeOK'
           /\ UNCHANGED <<defs, lookup>>
           /\ InTransaction(e) /\ edit[e].row \in RuleIds
           /\ edit'[e].step = "idle"
           /\ \A f \in Editors \ {e} :
                /\ edit'[f].step = edit[f].step /\ edit'[f].row = edit[f].row
                /\ edit'[f].want = edit[f].want /\ edit'[f].ids = edit[f].ids
                /\ edit'[f].gone = edit[f].gone /\ edit'[f].alone = edit[f].alone
                /\ edit[f].row # edit[e].row => edit'[f].seen = edit[f].seen
           /\ \A r \in RuleIds \ {edit[e].row}, d \in DossierIds :
                <<r, d>> \in links' <=> <<r, d>> \in links
<1>1. edit \in [Editors -> Edits] /\ edit[e] \in Edits /\ links \subseteq RuleIds \X DossierIds
  BY TypeUnfolds
<1>2. InTransaction(e) /\ edit[e].row \in RuleIds BY DEF CommitSet, InTransaction, Placed
<1>3. links' \subseteq RuleIds \X DossierIds
  <2>1. edit[e].mine \subseteq DossierIds BY <1>1 DEF Edits
  <2> QED BY <1>1, <1>2, <2>1 DEF CommitSet
<1>4. ASSUME NEW r \in RuleIds \ {edit[e].row}, NEW d \in DossierIds
      PROVE  <<r, d>> \in links' <=> <<r, d>> \in links
  <2>1. \A x \in DossierIds : <<r, d>> # <<edit[e].row, x>> BY <1>4
  <2>2. edit[e].gone \subseteq DossierIds /\ edit[e].mine \subseteq DossierIds
    BY <1>1 DEF Edits
  <2> QED BY <2>1, <2>2 DEF CommitSet
<1> DEFINE left(f) == [edit[f] EXCEPT !.seen = IF edit[f].row = edit[e].row
                                                 THEN @ \ edit[e].gone ELSE @]
<1>5. ASSUME NEW f \in Editors
      PROVE  /\ left(f) \in Edits
             /\ left(f).step = edit[f].step /\ left(f).row = edit[f].row
             /\ left(f).want = edit[f].want /\ left(f).ids = edit[f].ids
             /\ left(f).gone = edit[f].gone /\ left(f).alone = edit[f].alone
             /\ edit[f].row # edit[e].row => left(f).seen = edit[f].seen
  <2>1. edit[f] \in Edits BY <1>1
  <2> QED BY <2>1 DEF Edits
<1>6. edit' = [f \in Editors |-> IF f = e THEN NoEdit ELSE left(f)] BY DEF CommitSet
<1> HIDE DEF left
<1>7. /\ edit' \in [Editors -> Edits] /\ edit'[e] = NoEdit
      /\ \A f \in Editors \ {e} : edit'[f] = left(f)
  BY <1>5, <1>6, NoEditType
<1>8. UserdataTypeOK' BY <1>3, <1>7, TypeUnfolds, TypeUnfoldsNext DEF CommitSet
<1>9. edit'[e].step = "idle" BY <1>7, NoEditType
<1>10. UNCHANGED <<defs, lookup>> BY DEF CommitSet
<1>11. ASSUME NEW f \in Editors \ {e}
       PROVE  /\ edit'[f].step = edit[f].step /\ edit'[f].row = edit[f].row
              /\ edit'[f].want = edit[f].want /\ edit'[f].ids = edit[f].ids
              /\ edit'[f].gone = edit[f].gone /\ edit'[f].alone = edit[f].alone
              /\ edit[f].row # edit[e].row => edit'[f].seen = edit[f].seen
  BY <1>5, <1>7
<1> QED BY <1>2, <1>4, <1>8, <1>9, <1>10, <1>11

LEMMA EditPlaced ==
    ASSUME UserdataTypeOK, Placed, NEW e \in Editors, EditAction(e)
    PROVE  Placed'
<1>1. PICK call \in Edits :
             /\ edit' = [edit EXCEPT ![e] = call]
             /\ \/ call.step = "idle"
                \/ call.step \in {"upsert", "remove"} /\ call.row \in DossierIds
                \/ /\ InTransaction(e) /\ call.step \in {"clear", "clearing", "insert"}
                   /\ call.row = edit[e].row /\ call.alone = edit[e].alone
  BY EditMoves
<1>2. edit'[e] = call /\ \A f \in Editors : f # e => edit'[f] = edit[f] BY <1>1, SetEdit
<1> QED BY <1>1, <1>2 DEF Placed, InTransaction

LEMMA GetMoves ==
    ASSUME UserdataTypeOK, NEW c \in Lookups, NEW key \in DossierKeys, GetDossier(c, key)
    PROVE  \E call \in LookupCalls :
             /\ lookup' = [lookup EXCEPT ![c] = call]
             /\ call.key = {key}
             /\ \/ /\ call.step = "done" /\ call.outcome = "none"
                   /\ call.first = NoRow /\ call.second = NoRow
                \/ call.step = "list" /\ call.first \in LiveRows("dossier", {key})
<1> DEFINE live == LiveRows("dossier", {key})
           missed == [NoLookup EXCEPT !.step = "done", !.key = {key}]
           found(d) == [NoLookup EXCEPT !.step = "list", !.key = {key}, !.first = d]
<1>1. live \subseteq DossierIds BY LiveRowsOf, Tables
<1>2. /\ missed \in LookupCalls /\ missed.step = "done" /\ missed.outcome = "none"
      /\ missed.first = NoRow /\ missed.second = NoRow /\ missed.key = {key}
  BY DEF NoLookup, LookupCalls
<1>3. ASSUME NEW d \in live
      PROVE  /\ found(d) \in LookupCalls /\ found(d).step = "list"
             /\ found(d).first = d /\ found(d).key = {key}
  BY <1>1 DEF NoLookup, LookupCalls
<1>4. lookup' = [lookup EXCEPT ![c] = IF live = {} THEN missed
                                      ELSE found(CHOOSE d \in live : TRUE)]
  BY DEF GetDossier
<1> HIDE DEF live, missed, found
<1>5. CASE live = {} BY <1>2, <1>4, <1>5
<1>6. CASE live # {}
  <2>1. (CHOOSE d \in live : TRUE) \in live BY <1>6
  <2> QED BY <1>3, <1>4, <1>6, <2>1 DEF live
<1> QED BY <1>5, <1>6

LEMMA ListMoves ==
    ASSUME UserdataTypeOK, NEW c \in Lookups, ListDocuments(c)
    PROVE  \E call \in LookupCalls :
             /\ lookup' = [lookup EXCEPT ![c] = call]
             /\ call.step = "done" /\ call.quiet = lookup[c].quiet
             /\ call.first = lookup[c].first
             /\ \/ call.outcome = "failed" /\ LiveRows("dossier", lookup[c].key) = {}
                \/ /\ call.outcome = "spec"
                   /\ call.second \in LiveRows("dossier", lookup[c].key)
<1> DEFINE live == LiveRows("dossier", lookup[c].key)
           failed == [lookup[c] EXCEPT !.step = "done", !.outcome = "failed"]
           spec(d) == [lookup[c] EXCEPT !.step = "done", !.outcome = "spec", !.second = d]
<1>1. live \subseteq DossierIds BY LiveRowsOf, Tables
<1>2. lookup \in [Lookups -> LookupCalls] /\ lookup[c] \in LookupCalls BY TypeUnfolds
<1>3. /\ failed \in LookupCalls /\ failed.step = "done" /\ failed.outcome = "failed"
      /\ failed.first = lookup[c].first /\ failed.quiet = lookup[c].quiet
  BY <1>2 DEF LookupCalls
<1>4. ASSUME NEW d \in live
      PROVE  /\ spec(d) \in LookupCalls /\ spec(d).step = "done" /\ spec(d).outcome = "spec"
             /\ spec(d).first = lookup[c].first /\ spec(d).quiet = lookup[c].quiet
             /\ spec(d).second = d
  BY <1>1, <1>2 DEF LookupCalls
<1>5. CASE live = {}
  <2>1. lookup' = [lookup EXCEPT ![c].step = "done", ![c].outcome = "failed"]
    BY <1>5 DEF ListDocuments
  <2>2. lookup' = [lookup EXCEPT ![c] = failed] BY <1>2, <2>1
  <2> QED BY <1>3, <1>5, <2>2
<1>6. CASE live # {}
  <2> DEFINE d == CHOOSE d \in live : TRUE
  <2>1. d \in live BY <1>6
  <2>2. lookup' = [lookup EXCEPT ![c].step = "done", ![c].outcome = "spec", ![c].second = d]
    BY <1>6 DEF ListDocuments
  <2> HIDE DEF d
  <2>3. lookup' = [lookup EXCEPT ![c] = spec(d)] BY <1>2, <2>2
  <2> QED BY <1>4, <2>1, <2>3
<1> QED BY <1>5, <1>6

LEMMA SetLookup ==
    ASSUME UserdataTypeOK, NEW c \in Lookups, NEW call \in LookupCalls,
           lookup' = [lookup EXCEPT ![c] = call]
    PROVE  /\ lookup' \in [Lookups -> LookupCalls]
           /\ lookup'[c] = call
           /\ \A b \in Lookups : b # c => lookup'[b] = lookup[b]
BY TypeUnfolds

LEMMA UserdataActions ==
    ASSUME UserdataNext
    PROVE  \/ RowNext
           \/ \E e \in Editors, key \in RuleKeys, want \in SUBSET DossierKeys :
                OpenSet(e, key, want)
           \/ \E e \in Editors : EditAction(e) \/ CommitSet(e)
           \/ \E c \in Lookups, key \in DossierKeys : GetDossier(c, key)
           \/ \E c \in Lookups : ListDocuments(c)
BY DEF UserdataNext, DocumentNext, LinkNext, LookupNext, EditAction

LEMMA StepType ==
    ASSUME UserdataTypeOK, Placed, [UserdataNext]_userdataVars
    PROVE  UserdataTypeOK' /\ Placed'
<1>1. CASE RowNext
  <2>1. UserdataTypeOK' BY <1>1, RowActions, CreateMoves, UpdateMoves, DeleteMoves
  <2>2. edit' = edit BY <1>1, RowActions DEF CreateDef, UpdateDef, DeleteDefs
  <2> QED BY <2>1, <2>2 DEF Placed, InTransaction
<1>2. ASSUME NEW e \in Editors, NEW key \in RuleKeys, NEW want \in SUBSET DossierKeys,
             OpenSet(e, key, want)
      PROVE  UserdataTypeOK' /\ Placed'
  BY <1>2, OpenMoves DEF Placed, InTransaction
<1>3. ASSUME NEW e \in Editors, EditAction(e) \/ CommitSet(e) PROVE UserdataTypeOK' /\ Placed'
  <2>1. CASE EditAction(e) BY <2>1, EditType, EditPlaced
  <2>2. CASE CommitSet(e) BY <2>2, CommitMoves DEF Placed, InTransaction
  <2> QED BY <1>3, <2>1, <2>2
<1>4. ASSUME NEW c \in Lookups, (\E key \in DossierKeys : GetDossier(c, key)) \/ ListDocuments(c)
      PROVE  UserdataTypeOK' /\ Placed'
  <2>1. lookup' \in [Lookups -> LookupCalls] BY <1>4, GetMoves, ListMoves, SetLookup
  <2>2. UNCHANGED <<defs, docdefs, links, edit>> BY <1>4 DEF GetDossier, ListDocuments
  <2> QED BY <2>1, <2>2, TypeUnfolds, TypeUnfoldsNext DEF Placed, InTransaction
<1>5. CASE UNCHANGED userdataVars
  BY <1>5, TypeUnfolds, TypeUnfoldsNext DEF userdataVars, Placed, InTransaction
<1> QED BY <1>1, <1>2, <1>3, <1>4, <1>5, UserdataActions

-----------------------------------------------------------------------------
(* A live dossier has one key, and no other live dossier has it.              *)
Keyed ==
    /\ \A i \in DossierIds : defs[i].state = "live" =>
         \E key \in DossierKeys : defs[i].key = {key}
    /\ \A i, j \in DossierIds :
         defs[i].state = "live" /\ defs[j].state = "live" /\ defs[i].key = defs[j].key
           => i = j

(* Between its reads, a quiet lookup holds the live dossier with the key.     *)
Holding ==
    \A c \in Lookups : lookup[c].step = "list" /\ lookup[c].quiet =>
      /\ lookup[c].first \in DossierIds
      /\ defs[lookup[c].first].state = "live"
      /\ defs[lookup[c].first].key = lookup[c].key

LEMMA RowKeyed ==
    ASSUME UserdataTypeOK, Keyed, RowNext
    PROVE  Keyed'
<1>1. DossierIds \subseteq AllIds BY Tables
<1>2. PICK kind \in DefKinds :
             \/ \E i \in DefIds[kind], key \in DefKeys[kind] : CreateDef(kind, i, key)
             \/ \E key \in DefKeys[kind] : UpdateDef(kind, key)
             \/ \E keys \in SUBSET DefKeys[kind] : DeleteDefs(kind, keys)
  BY RowActions
<1>3. ASSUME NEW i \in DefIds[kind], NEW key \in DefKeys[kind], CreateDef(kind, i, key)
      PROVE  Keyed'
  <2>1. /\ defs'[i].key = {key} /\ defs'[i].state = "live"
        /\ \A j \in AllIds : j # i => defs'[j] = defs[j]
    BY <1>3, CreateMoves
  <2>2. CASE i \notin DossierIds BY <1>1, <2>1, <2>2 DEF Keyed
  <2>3. CASE i \in DossierIds
    <3>1. kind = "dossier" BY <2>3, Tables DEF DefKinds
    <3>2. key \in DossierKeys BY <3>1, Tables
    <3>3. \A j \in DossierIds : ~(defs[j].state = "live" /\ defs[j].key = {key})
      BY <1>1, <1>3, <3>1, LiveRowsOf, Tables DEF CreateDef
    <3> QED BY <1>1, <2>1, <3>2, <3>3 DEF Keyed
  <2> QED BY <2>2, <2>3
<1>4. ASSUME NEW key \in DefKeys[kind], UpdateDef(kind, key) PROVE Keyed'
  BY <1>1, <1>4, UpdateMoves DEF Keyed
<1>5. ASSUME NEW keys \in SUBSET DefKeys[kind], DeleteDefs(kind, keys) PROVE Keyed'
  BY <1>1, <1>5, DeleteMoves DEF Keyed
<1> QED BY <1>2, <1>3, <1>4, <1>5

LEMMA RowHolding ==
    ASSUME UserdataTypeOK, Holding, RowNext
    PROVE  Holding'
<1>1. DossierIds \subseteq AllIds BY Tables
<1>2. PICK kind \in DefKinds :
             \/ \E i \in DefIds[kind], key \in DefKeys[kind] : CreateDef(kind, i, key)
             \/ \E key \in DefKeys[kind] : UpdateDef(kind, key)
             \/ \E keys \in SUBSET DefKeys[kind] : DeleteDefs(kind, keys)
  BY RowActions
<1>3. ASSUME NEW i \in DefIds[kind], NEW key \in DefKeys[kind], CreateDef(kind, i, key)
      PROVE  Holding'
  <2>1. /\ defs[i].state = "free"
        /\ \A j \in AllIds : j # i => defs'[j] = defs[j]
    BY <1>3, CreateMoves
  <2>2. lookup' = lookup BY <1>3 DEF CreateDef
  <2> QED BY <1>1, <2>1, <2>2 DEF Holding
<1>4. ASSUME NEW key \in DefKeys[kind], UpdateDef(kind, key) PROVE Holding'
  <2>1. lookup' = lookup BY <1>4 DEF UpdateDef
  <2> QED BY <1>1, <1>4, <2>1, UpdateMoves DEF Holding
<1>5. ASSUME NEW keys \in SUBSET DefKeys[kind], DeleteDefs(kind, keys) PROVE Holding'
  <2> SUFFICES ASSUME NEW c \in Lookups, lookup'[c].step = "list", lookup'[c].quiet
               PROVE  /\ lookup'[c].first \in DossierIds
                      /\ defs'[lookup'[c].first].state = "live"
                      /\ defs'[lookup'[c].first].key = lookup'[c].key
    BY DEF Holding
  <2>1. /\ lookup[c].step = "list" /\ lookup[c].quiet
        /\ lookup'[c].key = lookup[c].key /\ lookup'[c].first = lookup[c].first
        /\ ~(kind = "dossier" /\ lookup[c].key \subseteq keys)
    BY <1>5, DeleteMoves
  <2>2. /\ lookup[c].first \in DossierIds
        /\ defs[lookup[c].first].state = "live"
        /\ defs[lookup[c].first].key = lookup[c].key
    BY <2>1 DEF Holding
  <2>3. lookup[c].first \notin LiveRows(kind, keys)
    BY <2>1, <2>2, LiveRowsOf, Tables DEF DefKinds
  <2> QED BY <1>1, <1>5, <2>1, <2>2, <2>3, DeleteMoves
<1> QED BY <1>2, <1>3, <1>4, <1>5

(* The lookup's two reads find the same row, for its key has no other.        *)
LEMMA ReadSteady ==
    ASSUME UserdataTypeOK, Keyed, Holding, QuietLookup, NEW c \in Lookups,
           (\E key \in DossierKeys : GetDossier(c, key)) \/ ListDocuments(c)
    PROVE  Holding' /\ QuietLookup'
<1>1. DossierIds \subseteq AllIds BY Tables
<1>2. defs' = defs BY DEF GetDossier, ListDocuments
<1>3. ASSUME NEW key \in DossierKeys, GetDossier(c, key) PROVE Holding' /\ QuietLookup'
  <2>1. PICK call \in LookupCalls :
             /\ lookup' = [lookup EXCEPT ![c] = call]
             /\ call.key = {key}
             /\ \/ /\ call.step = "done" /\ call.outcome = "none"
                   /\ call.first = NoRow /\ call.second = NoRow
                \/ call.step = "list" /\ call.first \in LiveRows("dossier", {key})
    BY <1>3, GetMoves
  <2>2. lookup'[c] = call /\ \A b \in Lookups : b # c => lookup'[b] = lookup[b]
    BY <2>1, SetLookup
  <2>3. ASSUME call.step = "list"
        PROVE  /\ call.first \in DossierIds /\ defs[call.first].state = "live"
               /\ defs[call.first].key = call.key
    <3>1. call.first \in LiveRows("dossier", {key}) BY <2>1, <2>3
    <3>2. /\ call.first \in DossierIds /\ defs[call.first].state = "live"
          /\ defs[call.first].key \subseteq {key}
      BY <1>1, <3>1, LiveRowsOf, Tables
    <3>3. PICK k \in DossierKeys : defs[call.first].key = {k} BY <3>2 DEF Keyed
    <3> QED BY <2>1, <3>2, <3>3
  <2>4. Holding' BY <1>2, <2>2, <2>3 DEF Holding
  <2>5. QuietLookup' BY <2>1, <2>2 DEF QuietLookup
  <2> QED BY <2>4, <2>5
<1>4. ASSUME ListDocuments(c) PROVE Holding' /\ QuietLookup'
  <2>1. PICK call \in LookupCalls :
             /\ lookup' = [lookup EXCEPT ![c] = call]
             /\ call.step = "done" /\ call.quiet = lookup[c].quiet
             /\ call.first = lookup[c].first
             /\ \/ call.outcome = "failed" /\ LiveRows("dossier", lookup[c].key) = {}
                \/ /\ call.outcome = "spec"
                   /\ call.second \in LiveRows("dossier", lookup[c].key)
    BY <1>4, ListMoves
  <2>2. lookup'[c] = call /\ \A b \in Lookups : b # c => lookup'[b] = lookup[b]
    BY <2>1, SetLookup
  <2>3. ASSUME call.quiet PROVE call.outcome # "failed" /\ call.first = call.second
    <3>1. /\ lookup[c].first \in DossierIds
          /\ defs[lookup[c].first].state = "live"
          /\ defs[lookup[c].first].key = lookup[c].key
      BY <1>4, <2>1, <2>3 DEF Holding, ListDocuments
    <3>2. lookup[c].first \in LiveRows("dossier", lookup[c].key)
      BY <1>1, <3>1, LiveRowsOf, Tables
    <3>3. PICK k \in DossierKeys : lookup[c].key = {k} BY <3>1 DEF Keyed
    <3>4. ASSUME NEW d \in LiveRows("dossier", lookup[c].key) PROVE d = lookup[c].first
      <4>1. d \in DossierIds /\ defs[d].state = "live" /\ defs[d].key \subseteq {k}
        BY <1>1, <3>3, <3>4, LiveRowsOf, Tables
      <4>2. defs[d].key = {k} BY <4>1 DEF Keyed
      <4> QED BY <3>1, <3>3, <4>1, <4>2 DEF Keyed
    <3> QED BY <2>1, <3>2, <3>4
  <2>4. Holding' BY <1>2, <2>1, <2>2 DEF Holding
  <2>5. QuietLookup' BY <2>1, <2>2, <2>3 DEF QuietLookup
  <2> QED BY <2>4, <2>5
<1> QED BY <1>3, <1>4

(* The first inductive invariant. *)
Steady == UserdataTypeOK /\ Placed /\ Keyed /\ Holding /\ QuietLookup

LEMMA StepSteady == Steady /\ [UserdataNext]_userdataVars => Steady'
<1> SUFFICES ASSUME Steady, [UserdataNext]_userdataVars PROVE Steady'
  OBVIOUS
<1> USE DEF Steady
<1>1. UserdataTypeOK' /\ Placed' BY StepType
<1>2. CASE RowNext
  <2>1. Keyed' /\ Holding' BY <1>2, RowKeyed, RowHolding
  <2>2. QuietLookup'
    <3>1. \A c \in Lookups :
                /\ lookup'[c].step = lookup[c].step
                /\ lookup'[c].first = lookup[c].first
                /\ lookup'[c].second = lookup[c].second
                /\ lookup'[c].outcome = lookup[c].outcome
                /\ lookup'[c].quiet => lookup[c].quiet
      BY <1>2, RowActions, DeleteMoves DEF CreateDef, UpdateDef
    <3> QED BY <3>1 DEF QuietLookup
  <2> QED BY <1>1, <2>1, <2>2
<1>3. CASE UNCHANGED <<defs, lookup>>
  <2>1. Keyed' /\ Holding' BY <1>3 DEF Keyed, Holding
  <2>2. QuietLookup' BY <1>3 DEF QuietLookup
  <2> QED BY <1>1, <2>1, <2>2
<1>4. ASSUME NEW c \in Lookups,
             (\E key \in DossierKeys : GetDossier(c, key)) \/ ListDocuments(c)
      PROVE  Steady'
  <2>1. Holding' /\ QuietLookup' BY <1>4, ReadSteady
  <2>2. Keyed' BY <1>4 DEF GetDossier, ListDocuments, Keyed
  <2> QED BY <1>1, <2>1, <2>2
<1>5. ASSUME NEW e \in Editors, EditAction(e) \/ CommitSet(e) PROVE UNCHANGED <<defs, lookup>>
  BY <1>5
     DEF EditAction, FindDossierOf, WriteDocument, FindDossiers, StartClear, FinishClear,
         InsertLink, CommitSet, AbortSet
<1> QED BY <1>2, <1>3, <1>4, <1>5, UserdataActions DEF OpenSet, userdataVars

LEMMA SteadyInit == UserdataInit => Steady
<1> SUFFICES ASSUME UserdataInit PROVE Steady
  OBVIOUS
<1>1. DossierIds \subseteq AllIds BY Tables
<1> DEFINE row == [key |-> {}, state |-> "free", text |-> "none"]
<1>2. row \in Defs /\ row.state = "free" BY DEF Defs
<1>3. defs = [i \in AllIds |-> row] BY DEF UserdataInit
<1> HIDE DEF row
<1>4. defs \in [AllIds -> Defs] /\ \A i \in AllIds : defs[i].state = "free"
  BY <1>2, <1>3
<1>5. edit \in [Editors -> Edits] /\ \A e \in Editors : edit[e].step = "idle"
  BY NoEditType DEF UserdataInit
<1>6. lookup \in [Lookups -> LookupCalls] /\ \A c \in Lookups : lookup[c].step = "idle"
  BY NoLookupType DEF UserdataInit, NoLookup
<1>7. UserdataTypeOK BY <1>4, <1>5, <1>6, TypeUnfolds DEF UserdataInit
<1>8. Placed BY <1>5 DEF Placed, InTransaction
<1>9. Keyed BY <1>1, <1>4 DEF Keyed
<1>10. Holding /\ QuietLookup BY <1>6 DEF Holding, QuietLookup
<1> QED BY <1>7, <1>8, <1>9, <1>10 DEF Steady

LEMMA AlwaysSteady == UserdataSpec => []Steady
BY SteadyInit, StepSteady, PTL DEF UserdataSpec

(* Definitions, links, expected documents and the requests at work on them   *)
(* keep their types (userdata/{rules,dossiers,documents,knowledge}).         *)
THEOREM UserdataTypeCorrect == UserdataSpec => []UserdataTypeOK
<1>1. Steady => UserdataTypeOK BY DEF Steady
<1> QED BY <1>1, AlwaysSteady, PTL

(* A lookup that no deletion of its key met does not fail, and the dossier   *)
(* and the documents it returns are of one row, though it reads twice, in    *)
(* two transactions (dossierspec.py: get_dossier, then list_documents).      *)
THEOREM QuietLookupsAgree == UserdataSpec => []QuietLookup
<1>1. Steady => QuietLookup BY DEF Steady
<1> QED BY <1>1, AlwaysSteady, PTL

-----------------------------------------------------------------------------
(* The dossiers a rule is linked to, deleted ones included. *)
LinksOf(r) == {d \in DossierIds : <<r, d>> \in links}

(* The dossiers a call resolved are not free again, and have the keys asked for. *)
Resolved(e) ==
    edit[e].step \in {"clear", "clearing", "insert"} =>
      /\ \A d \in edit[e].ids : defs[d].state # "free"
      /\ UNION {defs[d].key : d \in edit[e].ids} = edit[e].want

(* A call that no other met saw every link of its rule, and deletes them all.  *)
Unmet(e) ==
    InTransaction(e) /\ edit[e].alone =>
      /\ \A f \in Editors \ {e} : InTransaction(f) => edit[f].row # edit[e].row
      /\ edit[e].step = "clearing" => edit[e].seen = LinksOf(edit[e].row)
      /\ edit[e].step = "insert" => edit[e].gone = LinksOf(edit[e].row)

(* The second inductive invariant, beside Steady. *)
Lone == \A e \in Editors : Resolved(e) /\ Unmet(e)

(* The keys of rows that are not free never change.                            *)
LEMMA RowResolved ==
    ASSUME UserdataTypeOK, Lone, RowNext
    PROVE  Lone'
<1>1. DossierIds \subseteq AllIds BY Tables
<1>2. UNCHANGED <<edit, links>>
  BY RowActions DEF CreateDef, UpdateDef, DeleteDefs
<1>3. ASSUME NEW d \in DossierIds, defs[d].state # "free"
      PROVE  defs'[d].state # "free" /\ defs'[d].key = defs[d].key
  <2>1. defs[d] \in Defs BY <1>1, TypeUnfolds
  <2>2. ASSUME NEW kind \in DefKinds, NEW i \in DefIds[kind], NEW key \in DefKeys[kind],
               CreateDef(kind, i, key)
        PROVE  defs'[d].state # "free" /\ defs'[d].key = defs[d].key
    <3>1. d # i BY <1>3, <2>2, CreateMoves
    <3> QED BY <1>1, <1>3, <2>2, <3>1, CreateMoves
  <2>3. ASSUME NEW kind \in DefKinds, NEW key \in DefKeys[kind], UpdateDef(kind, key)
        PROVE  defs'[d].state # "free" /\ defs'[d].key = defs[d].key
    BY <1>1, <1>3, <2>3, UpdateMoves
  <2>4. ASSUME NEW kind \in DefKinds, NEW keys \in SUBSET DefKeys[kind],
               DeleteDefs(kind, keys)
        PROVE  defs'[d].state # "free" /\ defs'[d].key = defs[d].key
    BY <1>1, <1>3, <2>4, DeleteMoves
  <2> QED BY <2>2, <2>3, <2>4, RowActions
<1>4. ASSUME NEW e \in Editors PROVE Resolved(e)' /\ Unmet(e)'
  <2>1. edit[e].ids \subseteq DossierIds BY TypeUnfolds DEF Edits
  <2>2. ASSUME edit[e].step \in {"clear", "clearing", "insert"}
        PROVE  /\ \A d \in edit[e].ids : defs'[d].state # "free"
               /\ UNION {defs'[d].key : d \in edit[e].ids} = edit[e].want
    <3>1. \A d \in edit[e].ids : defs[d].state # "free" BY <2>2 DEF Lone, Resolved
    <3>2. \A d \in edit[e].ids : defs'[d].state # "free" /\ defs'[d].key = defs[d].key
      BY <1>3, <2>1, <3>1
    <3>3. {defs'[d].key : d \in edit[e].ids} = {defs[d].key : d \in edit[e].ids}
      BY <3>2
    <3> QED BY <2>2, <3>2, <3>3 DEF Lone, Resolved
  <2>3. Resolved(e)' BY <1>2, <2>2 DEF Resolved
  <2>4. Unmet(e)' BY <1>2 DEF Lone, Unmet, InTransaction, LinksOf
  <2> QED BY <2>3, <2>4
<1> QED BY <1>4 DEF Lone

LEMMA OpenLone ==
    ASSUME UserdataTypeOK, Lone, NEW e \in Editors, NEW key \in RuleKeys,
           NEW want \in SUBSET DossierKeys, OpenSet(e, key, want)
    PROVE  Lone'
<1>1. UNCHANGED <<defs, links>> BY DEF OpenSet
<1>2. ~InTransaction(e) /\ edit'[e].step = "find"
  BY OpenMoves DEF InTransaction
<1>3. \A f \in Editors \ {e} : InTransaction(f)' <=> InTransaction(f)
  BY OpenMoves DEF InTransaction
<1>4. ASSUME NEW f \in Editors PROVE Resolved(f)'
  BY <1>1, <1>2, OpenMoves DEF Resolved, Lone
<1>5. Unmet(e)'
  <2>1. ASSUME edit'[e].alone, NEW f \in Editors \ {e}, InTransaction(f)'
        PROVE  edit'[f].row # edit'[e].row
    BY <1>3, <2>1, OpenMoves
  <2> QED BY <1>2, <2>1 DEF Unmet
<1>6. ASSUME NEW f \in Editors \ {e} PROVE Unmet(f)'
  <2> SUFFICES ASSUME InTransaction(f)', edit'[f].alone
               PROVE  /\ \A g \in Editors \ {f} : InTransaction(g)' => edit'[g].row # edit'[f].row
                      /\ edit'[f].step = "clearing" => edit'[f].seen = LinksOf(edit[f].row)
                      /\ edit'[f].step = "insert" => edit'[f].gone = LinksOf(edit[f].row)
    BY <1>1, OpenMoves DEF Unmet, LinksOf
  <2>1. /\ InTransaction(f) /\ edit[f].alone
        /\ edit[f].row # edit'[e].row
        /\ edit'[f].step = edit[f].step /\ edit'[f].row = edit[f].row
        /\ edit'[f].seen = edit[f].seen /\ edit'[f].gone = edit[f].gone
    BY <1>3, OpenMoves
  <2>2. Unmet(f) BY DEF Lone
  <2>3. ASSUME NEW g \in Editors \ {f}, InTransaction(g)' PROVE edit'[g].row # edit'[f].row
    <3>1. CASE g = e BY <2>1, <3>1
    <3>2. CASE g # e BY <1>3, <2>1, <2>2, <2>3, <3>2, OpenMoves DEF Unmet
    <3> QED BY <3>1, <3>2
  <2> QED BY <2>1, <2>2, <2>3 DEF Unmet
<1> QED BY <1>4, <1>5, <1>6 DEF Lone

(* A request that ends, or writes documents, leaves the others to themselves.  *)
LEMMA OthersLone ==
    ASSUME UserdataTypeOK, Lone, NEW e \in Editors, NEW call \in Edits,
           edit' = [edit EXCEPT ![e] = call],
           \/ call.step \in {"idle", "upsert", "remove"}
           \/ InTransaction(e) /\ call.row = edit[e].row,
           UNCHANGED <<defs, links>>
    PROVE  \A f \in Editors \ {e} : Resolved(f)' /\ Unmet(f)'
<1> SUFFICES ASSUME NEW f \in Editors \ {e} PROVE Resolved(f)' /\ Unmet(f)'
  OBVIOUS
<1>1. edit'[e] = call /\ \A g \in Editors : g # e => edit'[g] = edit[g] BY SetEdit
<1>2. edit'[f] = edit[f] BY <1>1
<1>3. Resolved(f)' BY <1>2 DEF Lone, Resolved
<1>4. \A g \in Editors : InTransaction(g)' => InTransaction(g) /\ edit'[g].row = edit[g].row
  BY <1>1 DEF InTransaction
<1>5. Unmet(f)' BY <1>2, <1>4 DEF Lone, Unmet, LinksOf, InTransaction
<1> QED BY <1>3, <1>5

(* A call that no other met is not on the rule of the one that commits.        *)
LEMMA CommitLone ==
    ASSUME UserdataTypeOK, Placed, Lone, NEW e \in Editors, CommitSet(e)
    PROVE  Lone'
<1>1. UNCHANGED defs BY DEF CommitSet
<1>2. \A f \in Editors : InTransaction(f)' => InTransaction(f) /\ f # e
  BY CommitMoves DEF InTransaction
<1>3. ASSUME NEW f \in Editors PROVE Resolved(f)'
  BY <1>1, CommitMoves DEF Resolved, Lone
<1>4. ASSUME NEW f \in Editors PROVE Unmet(f)'
  <2> SUFFICES ASSUME InTransaction(f)', edit'[f].alone
               PROVE  /\ \A g \in Editors \ {f} : InTransaction(g)' => edit'[g].row # edit'[f].row
                      /\ edit'[f].step = "clearing" => edit'[f].seen = LinksOf(edit[f].row)'
                      /\ edit'[f].step = "insert" => edit'[f].gone = LinksOf(edit[f].row)'
    BY DEF Unmet
  <2>1. InTransaction(f) /\ f # e BY <1>2
  <2>2. /\ edit'[f].step = edit[f].step /\ edit'[f].row = edit[f].row
        /\ edit'[f].gone = edit[f].gone /\ edit[f].alone
        /\ edit[f].row # edit[e].row => edit'[f].seen = edit[f].seen
    BY <2>1, CommitMoves
  <2>3. Unmet(f) BY DEF Lone
  <2>4. edit[f].row \in RuleIds \ {edit[e].row}
    BY <2>1, <2>2, <2>3, CommitMoves DEF Unmet, Placed
  <2>5. LinksOf(edit[f].row)' = LinksOf(edit[f].row)
    <3>1. \A d \in DossierIds : <<edit[f].row, d>> \in links' <=> <<edit[f].row, d>> \in links
      BY <2>4, CommitMoves
    <3> QED BY <2>2, <3>1 DEF LinksOf
  <2>6. ASSUME NEW g \in Editors \ {f}, InTransaction(g)' PROVE edit'[g].row # edit'[f].row
    BY <1>2, <2>1, <2>2, <2>3, <2>6, CommitMoves DEF Unmet
  <2> QED BY <2>1, <2>2, <2>3, <2>4, <2>5, <2>6 DEF Unmet
<1> QED BY <1>3, <1>4 DEF Lone

LEMMA EditLone ==
    ASSUME UserdataTypeOK, Lone, NEW e \in Editors, EditAction(e)
    PROVE  Lone'
<1>1. edit \in [Editors -> Edits] /\ edit[e] \in Edits BY TypeUnfolds
<1>2. UNCHANGED <<defs, links>>
  BY DEF EditAction, FindDossierOf, WriteDocument, FindDossiers, StartClear, FinishClear,
         InsertLink, AbortSet
<1>6. ASSUME NEW call \in Edits, edit' = [edit EXCEPT ![e] = call],
             call.step \in {"idle", "upsert", "remove"}
      PROVE  Lone'
  <2>1. edit'[e] = call BY <1>6, SetEdit
  <2>2. Resolved(e)' /\ Unmet(e)' BY <1>6, <2>1 DEF Resolved, Unmet, InTransaction
  <2> QED BY <1>2, <1>6, <2>2, OthersLone DEF Lone
<1>7. ASSUME NEW call \in Edits, edit' = [edit EXCEPT ![e] = call], InTransaction(e),
             call.row = edit[e].row, call.alone = edit[e].alone, links' = links,
             call.step \in {"clear", "clearing", "insert"},
             call.step = "clearing" => call.seen = LinksOf(edit[e].row),
             edit[e].alone /\ call.step = "insert" => call.gone = LinksOf(edit[e].row),
             \A d \in call.ids : defs[d].state # "free",
             UNION {defs[d].key : d \in call.ids} = call.want
      PROVE  Lone'
  <2>1. edit'[e] = call /\ \A f \in Editors : f # e => edit'[f] = edit[f]
    BY <1>7, SetEdit
  <2>2. Resolved(e)' BY <1>2, <1>7, <2>1 DEF Resolved
  <2>3. LinksOf(edit[e].row)' = LinksOf(edit[e].row) /\ edit'[e].row = edit[e].row
    BY <1>7, <2>1 DEF LinksOf
  <2>4. Unmet(e)'
    <3> SUFFICES ASSUME edit[e].alone
                 PROVE  /\ \A f \in Editors \ {e} : InTransaction(f)' => edit'[f].row # edit[e].row
                        /\ call.step = "clearing" => call.seen = LinksOf(edit[e].row)
                        /\ call.step = "insert" => call.gone = LinksOf(edit[e].row)
      BY <1>7, <2>1, <2>3 DEF Unmet, LinksOf
    <3>1. \A f \in Editors \ {e} : InTransaction(f)' => InTransaction(f) /\ edit'[f].row = edit[f].row
      BY <2>1 DEF InTransaction
    <3> QED BY <1>7, <3>1 DEF Lone, Unmet
  <2> QED BY <1>2, <1>7, <2>2, <2>4, OthersLone DEF Lone
<1>8. Resolved(e) /\ Unmet(e) BY DEF Lone
<1>9. CASE \E key \in DossierKeys, k \in DocKeys, step \in {"upsert", "remove"} :
             FindDossierOf(e, key, k, step)
  BY <1>6, <1>9, FindDossierMoves
<1>10. CASE WriteDocument(e) \/ AbortSet(e)
  BY <1>6, <1>10, NoEditType DEF WriteDocument, AbortSet
<1>11. CASE FindDossiers(e)
  <2>1. PICK call \in Edits :
             /\ edit' = [edit EXCEPT ![e] = call]
             /\ \/ call = NoEdit
                \/ /\ call.step = "clear" /\ call.row = edit[e].row
                   /\ call.alone = edit[e].alone
                   /\ call.want = edit[e].want
                   /\ call.ids = LiveRows("dossier", edit[e].want)
                   /\ UNION {defs[d].key : d \in call.ids} = call.want
    BY <1>11, FindMoves
  <2>2. CASE call = NoEdit BY <1>6, <2>1, <2>2, NoEditType
  <2>3. CASE call # NoEdit
    <3>1. \A d \in call.ids : defs[d].state # "free"
      BY <2>1, <2>3, LiveRowsOf, Tables
    <3>2. links' = links /\ InTransaction(e) BY <1>11 DEF FindDossiers, InTransaction
    <3> QED BY <1>7, <2>1, <2>3, <3>1, <3>2
  <2> QED BY <2>2, <2>3
<1>12. CASE StartClear(e)
  <2>1. PICK call \in Edits :
             /\ edit' = [edit EXCEPT ![e] = call]
             /\ call.step = "clearing" /\ call.row = edit[e].row
             /\ call.alone = edit[e].alone
             /\ call.want = edit[e].want /\ call.ids = edit[e].ids
             /\ call.seen = LinksOf(edit[e].row)
    BY <1>12, StartMoves DEF LinksOf
  <2>2. links' = links /\ edit[e].step = "clear" BY <1>12 DEF StartClear
  <2>3. InTransaction(e) BY <2>2 DEF InTransaction
  <2>4. /\ \A d \in call.ids : defs[d].state # "free"
        /\ UNION {defs[d].key : d \in call.ids} = call.want
    BY <1>8, <2>1, <2>2 DEF Resolved
  <2> QED BY <1>7, <2>1, <2>2, <2>3, <2>4
<1>13. CASE FinishClear(e)
  <2>1. PICK call \in Edits :
             /\ edit' = [edit EXCEPT ![e] = call]
             /\ call.step = "insert" /\ call.row = edit[e].row
             /\ call.alone = edit[e].alone
             /\ call.want = edit[e].want /\ call.ids = edit[e].ids
             /\ call.gone = edit[e].seen
    BY <1>13, FinishMoves
  <2>2. links' = links /\ edit[e].step = "clearing" BY <1>13 DEF FinishClear
  <2>3. InTransaction(e) BY <2>2 DEF InTransaction
  <2>4. /\ \A d \in call.ids : defs[d].state # "free"
        /\ UNION {defs[d].key : d \in call.ids} = call.want
    BY <1>8, <2>1, <2>2 DEF Resolved
  <2>5. edit[e].alone => call.gone = LinksOf(edit[e].row)
    BY <1>8, <2>1, <2>2, <2>3 DEF Unmet, LinksOf
  <2> QED BY <1>7, <2>1, <2>2, <2>3, <2>4, <2>5
<1>14. CASE \E d \in DossierIds : InsertLink(e, d)
  <2>1. PICK d \in DossierIds : InsertLink(e, d) BY <1>14
  <2>2. links' = links /\ edit[e].step = "insert" BY <2>1 DEF InsertLink
  <2>3. PICK call \in Edits :
             /\ edit' = [edit EXCEPT ![e] = call]
             /\ \/ call = NoEdit
                \/ /\ call.step = edit[e].step /\ call.row = edit[e].row
                   /\ call.alone = edit[e].alone
                   /\ call.want = edit[e].want /\ call.ids = edit[e].ids
                   /\ call.gone = edit[e].gone
    BY <2>1, InsertMoves
  <2>4. InTransaction(e) BY <2>2 DEF InTransaction
  <2>5. CASE call = NoEdit BY <1>6, <2>3, <2>5, NoEditType
  <2>6. CASE call # NoEdit
    <3>1. /\ \A x \in call.ids : defs[x].state # "free"
          /\ UNION {defs[x].key : x \in call.ids} = call.want
      BY <1>8, <2>2, <2>3, <2>6 DEF Resolved
    <3>2. edit[e].alone => call.gone = LinksOf(edit[e].row)
      BY <1>8, <2>2, <2>3, <2>4, <2>6 DEF Unmet
    <3> QED BY <1>7, <2>2, <2>3, <2>4, <2>6, <3>1, <3>2
  <2> QED BY <2>5, <2>6
<1> QED BY <1>9, <1>10, <1>11, <1>12, <1>13, <1>14 DEF EditAction

LEMMA StepLone ==
    ASSUME UserdataTypeOK, Placed, Lone, [UserdataNext]_userdataVars
    PROVE  Lone'
<1>1. CASE UNCHANGED <<defs, links, edit>>
  BY <1>1 DEF Lone, Resolved, Unmet, InTransaction, LinksOf
<1>2. CASE UserdataNext
  BY <1>1, <1>2, UserdataActions, RowResolved, OpenLone, EditLone, CommitLone
     DEF GetDossier, ListDocuments
<1> QED BY <1>1, <1>2 DEF userdataVars

LEMMA LoneCommitReplaces ==
    ASSUME UserdataTypeOK, Placed, Lone, NEW e \in Editors, CommitSet(e), edit[e].alone
    PROVE  Replaced(e)
<1>1. edit[e].step = "insert" /\ InTransaction(e) BY DEF CommitSet, InTransaction
<1>2. /\ edit[e].ids \subseteq DossierIds /\ edit[e].mine = edit[e].ids
      /\ edit[e].row \in RuleIds
  BY <1>1, TypeUnfolds DEF Edits, CommitSet, Placed
<1>3. UNION {defs[d].key : d \in edit[e].ids} = edit[e].want
  BY <1>1 DEF Lone, Resolved
<1>4. edit[e].gone = LinksOf(edit[e].row) BY <1>1 DEF Lone, Unmet
<1>5. defs' = defs BY DEF CommitSet
<1>6. ASSUME NEW d \in DossierIds
      PROVE  <<edit[e].row, d>> \in links' <=> d \in edit[e].ids
  <2>1. <<edit[e].row, d>> \in links <=> d \in edit[e].gone BY <1>4 DEF LinksOf
  <2> QED BY <1>2, <2>1 DEF CommitSet
<1>7. ASSUME NEW r \in {edit[e].row}
      PROVE  /\ DossiersForRule(r)' = {d \in edit[e].ids : defs[d].state = "live"}
             /\ defs[r].state = "live" =>
                  \A d \in DossierIds : r \in RulesForDossier(d)' <=> d \in edit[e].ids
  BY <1>2, <1>5, <1>6 DEF DossiersForRule, RulesForDossier
<1> QED BY <1>3, <1>7 DEF Replaced

(* A set_dossiers call that commits, and that no other call on its rule      *)
(* overlapped, leaves the rule linked to exactly the dossiers it was given,  *)
(* whatever aborted before and whatever definitions came and went meanwhile  *)
(* (rules/service.py: "Replace the rule's linked dossiers with dossier_keys  *)
(* (transactional)").                                                        *)
THEOREM LoneSetsReplace == UserdataSpec => LoneSetReplaces
<1>1. UserdataInit => Lone
  BY NoEditType DEF UserdataInit, Lone, Resolved, Unmet, InTransaction
<1>2. UserdataTypeOK /\ Placed /\ Lone /\ [UserdataNext]_userdataVars => Lone'
  BY StepLone
<1>3. UserdataTypeOK /\ Placed /\ Lone /\ [UserdataNext]_userdataVars
        => [\A e \in Editors : CommitSet(e) /\ edit[e].alone => Replaced(e)]_userdataVars
  BY LoneCommitReplaces
<1>4. Steady => UserdataTypeOK /\ Placed BY DEF Steady
<1> QED BY <1>1, <1>2, <1>3, <1>4, AlwaysSteady, PTL DEF UserdataSpec, LoneSetReplaces
====
