----------------------------- MODULE BodyProofs -----------------------------
(***************************************************************************)
(* Proofs about the texts of documents, for every number of specs, rules,  *)
(* versions, clients, tabs and people.                                     *)
(*                                                                         *)
(* The first part is about the specs and rules of RuleText: the shapes of  *)
(* the rows, accepted texts that stand, acceptances that reach every spec  *)
(* that arranges the rule, and specs that never go back to an older        *)
(* version of a rule they keep.  Two invariants carry it: RuleInv says     *)
(* what the docs rows' locks and the readings are worth, HoldInv what the  *)
(* rules rows' locks and the lists of specs to move are.                   *)
(*                                                                         *)
(* The second part is about the lock that people edit a body under, the    *)
(* module BodyLocks: its types, the one holder, and saves that overwrite   *)
(* nothing unseen.                                                         *)
(***************************************************************************)
EXTENDS RuleText, BodyLocks, TLAPS

Statuses == {"draft", "accepted"}
Tables   == {"save", "land"}
Txs == [step : {"idle", "opened", "written", "done"},
        kind : {"none", "save", "land", "accept", "rule"},
        doc : Specs \union {None}, says : Wording,
        saw : [Rules -> [status : Statuses, version : Nat] \union {None}],
        new : [Rules -> Nat], takes : SUBSET Rules, bumps : SUBSET Specs,
        todo : SUBSET Specs, stuck : SUBSET Specs, done : SUBSET Specs]

\* The newest version that nobody rewrites in place; 0 if there is none.
Fixed(r) == IF status[r] = "draft" THEN Version(r) - 1 ELSE Version(r)

\* TypeOK without the bounds of the instances, and with the transactions.
RowTypes ==
  /\ text \in [Rules -> Seq(Texts)] /\ \A r \in Rules : text[r] # <<>>
  /\ status \in [Rules -> Statuses]
  /\ state \in [Specs -> Statuses] /\ shows \in [Specs -> [Rules -> Nat]]
  /\ docTx \in [Specs -> Clients \union {None}]
  /\ candidate \in [Specs -> [shows : [Rules -> Nat], says : Wording] \union {None}]
  /\ tx \in [Clients -> Txs]

\* Arrangements are at versions that exist, those of accepted specs at versions that
\* nobody rewrites.
InRange ==
  \A d \in Specs, r \in Rules :
     /\ shows[d][r] <= Version(r)
     /\ state[d] = "accepted" => shows[d][r] <= Fixed(r)
     /\ candidate[d] # None => candidate[d].shows[r] <= Version(r)

\* A spec whose arrangement is being rewritten is moved by nobody.
Undisturbed ==
  \A c, o \in Clients : tx[c].kind \in Tables => tx[c].doc \notin tx[o].done

\* A transaction on a spec's text or status holds the spec's row.
DocHeld(c) ==
  /\ tx[c].kind \in Tables \union {"accept"} =>
        tx[c].doc \in Specs /\ docTx[tx[c].doc] = c
  /\ tx[c].kind \in {"save", "accept"} => state[tx[c].doc] = "draft"
  /\ tx[c].kind = "land" => state[tx[c].doc] = "accepted"

\* What it has read of the rules is no older than what its spec shows.
Opened(c) ==
  tx[c].step = "opened" => /\ tx[c].kind \in Tables
    /\ \A r \in Rules :
         /\ tx[c].new[r] <= Version(r)
         /\ tx[c].saw[r] # None => /\ shows[tx[c].doc][r] <= tx[c].saw[r].version
         /\ tx[c].kind = "save" =>
               tx[c].new[r] = 0 \/ shows[tx[c].doc][r] <= tx[c].new[r]

\* It has read versions that exist, of the rules that it writes.
Read(c) ==
  \A r \in Rules : tx[c].saw[r] # None =>
     /\ tx[c].kind \in Tables /\ tx[c].says[r] # None
     /\ tx[c].saw[r].version \in 1..Version(r)

\* Nor is the arrangement it has written.
Written(c) ==
  tx[c].step \in {"written", "done"} /\ tx[c].kind \in Tables =>
    \A r \in Rules : /\ tx[c].new[r] <= Latest(tx[c], r)
                     /\ tx[c].new[r] = 0 \/ shows[tx[c].doc][r] <= tx[c].new[r]

\* The rules that a publication does not accept are arranged at accepted versions.
Published(c) ==
  tx[c].step = "done" =>
    \A r \in Rules \ tx[c].takes :
       /\ tx[c].kind = "land" => tx[c].new[r] <= Fixed(r)
       /\ tx[c].kind = "accept" => shows[tx[c].doc][r] <= Fixed(r)

TxInv(c) == DocHeld(c) /\ Opened(c) /\ Read(c) /\ Written(c) /\ Published(c)
RuleInv  == RowTypes /\ InRange /\ Undisturbed /\ \A c \in Clients : TxInv(c)

\* Versions, and the newest that is not rewritten, only rise.
RowsGrow ==
  \A r \in Rules : Version(r) <= Version(r)' /\ Fixed(r) <= Fixed(r)'

\* What c's transaction is doing stays, but for the specs it moves.
SameWork(c) ==
  /\ tx'[c].step = tx[c].step /\ tx'[c].kind = tx[c].kind /\ tx'[c].doc = tx[c].doc
  /\ tx'[c].saw = tx[c].saw /\ tx'[c].says = tx[c].says /\ tx'[c].new = tx[c].new
  /\ tx'[c].takes = tx[c].takes

USE NoneAssumption DEF Statuses, Tables

-----------------------------------------------------------------------------
(* Rows and transactions *)

LEMMA VersionTypes ==
  ASSUME RowTypes, NEW r \in Rules
  PROVE  /\ Version(r) \in Nat \ {0} /\ Newest(r) \in Nat /\ Fixed(r) \in Nat
         /\ Fixed(r) <= Newest(r) /\ Newest(r) <= Version(r)
<1>1. text[r] \in Seq(Texts) /\ text[r] # <<>> BY DEF RowTypes
<1>2. Version(r) \in Nat \ {0} BY <1>1 DEF Version
<1> QED BY <1>2 DEF Newest, Fixed

LEMMA IdleTyped == Idle \in Txs
BY DEF Idle, Txs, Nothing, Unarranged, Wording

\* A version rewritten in place leaves the sequence as long as it was.
LEMMA InPlace ==
  ASSUME NEW S, NEW s \in Seq(S), NEW x \in S, NEW i
  PROVE  [s EXCEPT ![i] = x] \in Seq(S) /\ Len([s EXCEPT ![i] = x]) = Len(s)
<1> DEFINE z == [s EXCEPT ![i] = x]
<1>0. s \in [1..Len(s) -> S] /\ Len(s) \in Nat OBVIOUS
<1>1. z \in [1..Len(s) -> S] BY <1>0
<1> HIDE DEF z
<1>2. z \in Seq(S) /\ Len(z) = Len(s) BY <1>0, <1>1
<1> QED BY <1>2 DEF z

LEMMA OneLonger ==
  ASSUME NEW S, NEW s \in Seq(S), NEW x \in S
  PROVE  Append(s, x) \in Seq(S) /\ Len(Append(s, x)) = Len(s) + 1
OBVIOUS

LEMMA ShownTyped ==
  ASSUME RowTypes, InRange, NEW d \in Specs PROVE Shown(d) \in Wording
<1>1. ASSUME NEW r \in Rules, shows[d][r] # 0 PROVE text[r][shows[d][r]] \in Texts \union {None}
  <2>1. text[r] \in Seq(Texts) /\ shows[d][r] \in Nat BY DEF RowTypes
  <2>2. shows[d][r] <= Len(text[r]) BY DEF InRange, Version
  <2> QED BY <1>1, <2>1, <2>2
<1> QED BY <1>1 DEF Shown, Reads, Wording

\* What a transaction on a text starts from.
LEMMA SyncingTyped ==
  ASSUME RowTypes, NEW k \in Tables, NEW d \in Specs, NEW a \in [Rules -> Nat],
         NEW says \in Wording
  PROVE  LET t == Syncing(k, d, a, says) IN
         /\ t \in Txs /\ t.step = "opened" /\ t.kind = k /\ t.doc = d /\ t.done = {}
         /\ t.takes = {} /\ t.todo = {} /\ t.stuck = {} /\ t.bumps = {}
         /\ t.new = Base(a, says)
         /\ \A r \in Rules : t.saw[r] # None =>
              t.saw[r].version = Version(r) /\ t.says[r] # None
<1> DEFINE w == [r \in Rules |->
                 IF says[r] # None /\ says[r] # text[r][Base(a, says)[r]]
                 THEN [status |-> status[r], version |-> Version(r)] ELSE None]
           b == Base(a, says)
           t == [Idle EXCEPT !.step = "opened", !.kind = k, !.doc = d, !.says = says,
                             !.new = b, !.saw = w]
<1>1. b \in [Rules -> Nat] BY VersionTypes DEF Base
<1>2. \A r \in Rules : status[r] \in Statuses /\ Version(r) \in Nat
  BY VersionTypes DEF RowTypes
<1>3. w \in [Rules -> [status : Statuses, version : Nat] \union {None}] BY <1>2
<1>4. \A r \in Rules : w[r] # None => w[r].version = Version(r) /\ says[r] # None OBVIOUS
<1>5. t = Syncing(k, d, a, says) BY DEF Syncing
<1> HIDE DEF b, w
<1>6. /\ t \in Txs /\ t.step = "opened" /\ t.kind = k /\ t.doc = d /\ t.done = {}
      /\ t.takes = {} /\ t.todo = {} /\ t.stuck = {} /\ t.bumps = {}
      /\ t.new = b /\ t.saw = w /\ t.says = says
  BY <1>1, <1>3, IdleTyped DEF Txs, Idle
<1> HIDE DEF t
<1> QED BY <1>4, <1>5, <1>6 DEF b

\* One transaction's view survives a step of another that lets the rows grow,
\* and leaves the spec it holds to it.
LEMMA Bystander ==
  ASSUME RowTypes, RowTypes', RowsGrow, NEW o \in Clients, TxInv(o), SameWork(o),
         tx[o].doc \in Specs /\ docTx[tx[o].doc] = o =>
            docTx'[tx[o].doc] = o /\ state'[tx[o].doc] = state[tx[o].doc],
         tx[o].kind \in Tables => shows'[tx[o].doc] = shows[tx[o].doc],
         tx[o].kind = "accept" => \A r \in Rules :
            \/ shows'[tx[o].doc][r] = shows[tx[o].doc][r]
            \/ shows'[tx[o].doc][r] <= Fixed(r)'
  PROVE  TxInv(o)'
<1>0. tx[o] \in Txs BY DEF RowTypes
<1>1. /\ \A r \in Rules : /\ Version(r) \in Nat /\ Version(r)' \in Nat
                          /\ Fixed(r) \in Nat /\ Fixed(r)' \in Nat
                          /\ Version(r) <= Version(r)' /\ Fixed(r) <= Fixed(r)'
  <2>1. \A r \in Rules : Version(r) \in Nat /\ Fixed(r) \in Nat
    BY VersionTypes
  <2>2. ASSUME NEW r \in Rules PROVE Version(r)' \in Nat /\ Fixed(r)' \in Nat
    <3>1. text'[r] \in Seq(Texts) /\ text'[r] # <<>> BY DEF RowTypes
    <3>2. Len(text'[r]) \in Nat \ {0} BY <3>1
    <3> QED BY <3>2 DEF Version, Fixed
  <2> QED BY <2>1, <2>2 DEF RowsGrow
<1>2. /\ tx[o].new \in [Rules -> Nat]
      /\ \A r \in Rules : tx[o].saw[r] # None => tx[o].saw[r].version \in Nat
      /\ \A d \in Specs, r \in Rules : shows[d][r] \in Nat
  BY <1>0 DEF Txs, RowTypes
<1>3. DocHeld(o)' BY DEF DocHeld, TxInv, SameWork
<1>4. Opened(o)' BY <1>1, <1>2, <1>3 DEF Opened, TxInv, SameWork, DocHeld
<1>5. Written(o)'
  <2>1. \A r \in Rules : Latest(tx[o], r) <= Latest(tx[o], r)'
                         /\ Latest(tx[o], r) \in Nat /\ Latest(tx[o], r)' \in Nat
    BY <1>1 DEF Latest, Bumped, Changed, SameWork
  <2> QED BY <1>1, <1>2, <1>3, <2>1 DEF Written, TxInv, SameWork, DocHeld
<1>6. Published(o)'
  BY <1>1, <1>2, <1>3 DEF Published, TxInv, SameWork, DocHeld
<1>7. Read(o)' BY <1>1, <1>2 DEF Read, TxInv, SameWork
<1> QED BY <1>3, <1>4, <1>5, <1>6, <1>7 DEF TxInv

-----------------------------------------------------------------------------
(* Steps that leave the rules, the specs and the candidates alone *)

LEMMA Quiet ==
  ASSUME RuleInv, NEW c \in Clients, UNCHANGED <<ruleVars, specVars, candidate>>,
         tx' \in [Clients -> Txs], docTx' \in [Specs -> Clients \union {None}],
         \A o \in Clients \ {c} : SameWork(o),
         \A d \in Specs : docTx[d] \in Clients \ {c} => docTx'[d] = docTx[d],
         TxInv(c)', Undisturbed'
  PROVE  RuleInv'
<1>1. RowTypes' BY DEF RuleInv, RowTypes, ruleVars, specVars
<1>2. RowsGrow
  BY VersionTypes DEF RowsGrow, RuleInv, Version, Fixed, ruleVars
<1>3. InRange' BY DEF RuleInv, InRange, Version, Fixed, ruleVars, specVars
<1>4. ASSUME NEW o \in Clients \ {c} PROVE TxInv(o)'
  BY <1>1, <1>2, Bystander DEF RuleInv, specVars
<1> QED BY <1>1, <1>3, <1>4 DEF RuleInv

\* Nor does a step that lets the rules grow under the transactions that are open.
LEMMA RowsStep ==
  ASSUME RuleInv, RowTypes', RowsGrow, UNCHANGED <<specVars, docTx, tx>>,
         UNCHANGED candidate \/ InRange'
  PROVE  RuleInv'
<1>1. InRange'
  <2>1. \A r \in Rules : /\ Version(r) \in Nat /\ Version(r)' \in Nat
                         /\ Fixed(r) \in Nat /\ Fixed(r)' \in Nat
                         /\ Version(r) <= Version(r)' /\ Fixed(r) <= Fixed(r)'
    <3>1. \A r \in Rules : Version(r) \in Nat /\ Fixed(r) \in Nat
      BY VersionTypes DEF RuleInv
    <3>2. ASSUME NEW r \in Rules PROVE Version(r)' \in Nat /\ Fixed(r)' \in Nat
      <4>1. Len(text'[r]) \in Nat \ {0} BY DEF RowTypes
      <4> QED BY <4>1 DEF Version, Fixed
    <3> QED BY <3>1, <3>2 DEF RowsGrow
  <2>2. \A d \in Specs, r \in Rules :
          /\ shows[d][r] \in Nat
          /\ candidate[d] # None => candidate[d].shows[r] \in Nat
    BY DEF RuleInv, RowTypes
  <2>3. InRange BY DEF RuleInv
  <2> QED BY <2>1, <2>2, <2>3 DEF InRange, specVars
<1>2. Undisturbed' BY DEF RuleInv, Undisturbed
<1>3. ASSUME NEW o \in Clients PROVE TxInv(o)'
  BY Bystander DEF RuleInv, SameWork, specVars
<1> QED BY <1>1, <1>2, <1>3 DEF RuleInv

\* The client's transaction alone moves, and what it does to specs' arrangements
\* is not new.
LEMMA QuietOwn ==
  ASSUME RuleInv, NEW c \in Clients, UNCHANGED <<ruleVars, specVars, candidate>>,
         NEW t \in Txs, tx' = [tx EXCEPT ![c] = t],
         docTx' \in [Specs -> Clients \union {None}],
         \A d \in Specs : docTx[d] \in Clients => docTx'[d] = docTx[d],
         TxInv(c)', t.done \subseteq tx[c].done,
         t.kind \in Tables => \A o \in Clients : t.doc \notin tx[o].done
  PROVE  RuleInv'
<1>1. tx \in [Clients -> Txs] BY DEF RuleInv, RowTypes
<1>2. tx'[c] = t /\ \A o \in Clients \ {c} : tx'[o] = tx[o] BY <1>1
<1>3. tx' \in [Clients -> Txs] BY <1>1
<1>4. Undisturbed' BY <1>2 DEF RuleInv, Undisturbed
<1> QED BY <1>2, <1>3, <1>4, Quiet DEF SameWork

LEMMA SaveOpens ==
  ASSUME RuleInv, NEW c \in Clients, NEW d \in Specs, NEW says \in Wording,
         OpenSave(c, d, says)
  PROVE  RuleInv'
<1> DEFINE t == Syncing("save", d, shows[d], says)
<1>0. /\ RowTypes /\ InRange /\ shows[d] \in [Rules -> Nat] /\ docTx \in [Specs -> Clients \union {None}]
      /\ tx \in [Clients -> Txs]
  BY DEF RuleInv, RowTypes
<1>1. /\ t \in Txs /\ t.step = "opened" /\ t.kind = "save" /\ t.doc = d /\ t.done = {}
      /\ t.new = Base(shows[d], says)
      /\ \A r \in Rules : t.saw[r] # None =>
           t.saw[r].version = Version(r) /\ t.says[r] # None
  BY <1>0, SyncingTyped
<1> HIDE DEF t
<1>2. tx' = [tx EXCEPT ![c] = t] /\ tx'[c] = t /\ docTx' = [docTx EXCEPT ![d] = c]
      /\ state[d] = "draft" /\ docTx[d] = None /\ ~Moving(d)
      /\ UNCHANGED <<ruleVars, specVars, candidate>>
  BY <1>0 DEF OpenSave, t
<1>3. /\ \A r \in Rules : t.new[r] \in {0, shows[d][r], Newest(r)}
      /\ \A r \in Rules : t.new[r] \in {0, shows[d][r]} \/ shows[d][r] = 0
  BY <1>1 DEF Base
<1>4. \A r \in Rules : /\ Version(r) \in Nat \ {0} /\ Newest(r) \in Nat /\ Newest(r) <= Version(r)
                       /\ shows[d][r] \in Nat /\ shows[d][r] <= Version(r)
  BY <1>0, VersionTypes DEF InRange
<1>5. Opened(c)'
  BY <1>1, <1>2, <1>3, <1>4 DEF Opened, Version, ruleVars, specVars
<1>6. DocHeld(c)' /\ Written(c)' /\ Published(c)'
  BY <1>0, <1>1, <1>2 DEF DocHeld, Written, Published, specVars
<1>8. Read(c)' BY <1>1, <1>2, <1>4 DEF Read, Version, ruleVars
<1>7. \A o \in Clients : d \notin tx[o].done BY <1>2 DEF Moving
<1> QED BY <1>0, <1>1, <1>2, <1>5, <1>6, <1>7, <1>8, QuietOwn DEF TxInv

LEMMA LandOpens ==
  ASSUME RuleInv, NEW c \in Clients, NEW d \in Specs, OpenLand(c, d)
  PROVE  RuleInv'
<1> DEFINE a == candidate[d].shows  says == candidate[d].says
           t == Syncing("land", d, a, says)
<1>0. /\ RowTypes /\ InRange /\ docTx \in [Specs -> Clients \union {None}]
      /\ tx \in [Clients -> Txs] /\ shows[d] \in [Rules -> Nat]
  BY DEF RuleInv, RowTypes
<1>a. candidate[d] \in [shows : [Rules -> Nat], says : Wording] /\ candidate[d] # None
  BY <1>0 DEF OpenLand, RowTypes
<1>b. a \in [Rules -> Nat] /\ says \in Wording BY <1>a
<1>c. \A r \in Rules : a[r] <= Version(r) BY <1>0, <1>a DEF InRange
<1> HIDE DEF a, says
<1>1. /\ t \in Txs /\ t.step = "opened" /\ t.kind = "land" /\ t.doc = d /\ t.done = {}
      /\ t.new = Base(a, says)
      /\ \A r \in Rules : t.saw[r] # None =>
           t.saw[r].version = Version(r) /\ t.says[r] # None
  BY <1>0, <1>b, SyncingTyped
<1> HIDE DEF t
<1>2. tx' = [tx EXCEPT ![c] = t] /\ tx'[c] = t /\ docTx' = [docTx EXCEPT ![d] = c]
      /\ state[d] = "accepted" /\ docTx[d] = None /\ ~Moving(d)
      /\ UNCHANGED <<ruleVars, specVars, candidate>>
  BY <1>0 DEF OpenLand, t, a, says
<1>3. \A r \in Rules : t.new[r] \in {0, a[r], Newest(r)} BY <1>1 DEF Base
<1>4. \A r \in Rules : /\ Version(r) \in Nat \ {0} /\ Newest(r) \in Nat /\ Newest(r) <= Version(r)
                       /\ shows[d][r] \in Nat /\ shows[d][r] <= Version(r)
  BY <1>0, VersionTypes DEF InRange
<1>d. \A r \in Rules : t.new[r] <= Version(r)
  <2>1. \A r \in Rules : a[r] \in Nat BY <1>b
  <2> QED BY <1>3, <1>4, <1>c, <2>1
<1>5. Opened(c)'
  BY <1>1, <1>2, <1>4, <1>d DEF Opened, Version, ruleVars, specVars
<1>6. DocHeld(c)' /\ Written(c)' /\ Published(c)'
  BY <1>0, <1>1, <1>2 DEF DocHeld, Written, Published, specVars
<1>8. Read(c)' BY <1>1, <1>2, <1>4 DEF Read, Version, ruleVars
<1>7. \A o \in Clients : d \notin tx[o].done BY <1>2 DEF Moving
<1> QED BY <1>0, <1>1, <1>2, <1>5, <1>6, <1>7, <1>8, QuietOwn DEF TxInv

\* syncRules and reviseRule: the arrangement written is at most the newest version
\* of each rule and at least what the spec shows.
LEMMA Writes == ASSUME RuleInv, NEW c \in Clients, Write(c) PROVE RuleInv'
<1> DEFINE s == tx[c]
           d == s.doc
           n == Rewritten(s)
           t == [s EXCEPT !.step = IF s.kind = "save" THEN "done" ELSE "written", !.new = n]
<1>0. /\ RowTypes /\ InRange /\ s \in Txs /\ tx \in [Clients -> Txs]
      /\ docTx \in [Specs -> Clients \union {None}] /\ TxInv(c)
  BY DEF RuleInv, RowTypes
<1>1. /\ s.step = "opened" /\ s.kind \in Tables /\ docTx' = docTx
      /\ UNCHANGED <<ruleVars, specVars, candidate>>
  BY DEF Write
<1>2. d \in Specs /\ docTx[d] = c /\ (s.kind \in {"save", "accept"} => state[d] = "draft")
      /\ (s.kind = "land" => state[d] = "accepted")
  BY <1>0, <1>1 DEF TxInv, DocHeld
<1>3. \A r \in Rules : /\ Version(r) \in Nat \ {0} /\ Newest(r) \in Nat /\ Newest(r) <= Version(r)
                       /\ Fixed(r) \in Nat /\ Fixed(r) <= Newest(r)
                       /\ shows[d][r] \in Nat /\ shows[d][r] <= Version(r)
                       /\ s.new[r] \in Nat /\ (s.saw[r] # None => s.saw[r].version \in Nat)
  BY <1>0, <1>2, VersionTypes DEF InRange, RowTypes, Txs
<1>4. \A r \in Rules :
        /\ s.new[r] <= Version(r)
        /\ s.saw[r] # None => shows[d][r] <= s.saw[r].version /\ s.saw[r].version <= Version(r)
        /\ s.kind = "save" => s.new[r] = 0 \/ shows[d][r] <= s.new[r]
        /\ s.kind = "land" => shows[d][r] <= Fixed(r)
  BY <1>0, <1>1, <1>2 DEF TxInv, Opened, Read, InRange
<1>5. n \in [Rules -> Nat] /\ \A r \in Rules :
         /\ n[r] <= Latest(s, r)
         /\ n[r] = 0 \/ shows[d][r] <= n[r]
  BY <1>1, <1>3, <1>4 DEF Rewritten, Latest, Bumped, Changed, Max2
<1>6. tx' = [tx EXCEPT ![c] = t]
  BY <1>0 DEF Write
<1> HIDE DEF n
<1>7. /\ t \in Txs /\ t.kind = s.kind /\ t.doc = d /\ t.saw = s.saw /\ t.new = n
      /\ t.done = s.done /\ t.says = s.says /\ t.step = IF s.kind = "save" THEN "done" ELSE "written"
  BY <1>0, <1>5 DEF Txs
<1> HIDE DEF t
<1>8. tx'[c] = t BY <1>0, <1>6
<1>9. \A r \in Rules : Latest(tx[c], r)' = Latest(s, r)
  BY <1>1, <1>7, <1>8 DEF Latest, Bumped, Changed, Version, ruleVars
<1>10. Written(c)' BY <1>1, <1>5, <1>7, <1>8, <1>9 DEF Written, specVars
<1>11. DocHeld(c)' /\ Opened(c)'
  BY <1>1, <1>2, <1>7, <1>8 DEF DocHeld, Opened, specVars
<1>12. Published(c)' /\ Read(c)'
  BY <1>0, <1>1, <1>7, <1>8 DEF Published, TxInv, Read, Version, ruleVars
<1>13. \A o \in Clients : t.doc \notin tx[o].done
  BY <1>1, <1>7 DEF RuleInv, Undisturbed
<1> QED BY <1>0, <1>1, <1>6, <1>7, <1>10, <1>11, <1>12, <1>13, QuietOwn DEF TxInv

LEMMA AcceptOpens ==
  ASSUME RuleInv, NEW c \in Clients, NEW d \in Specs, OpenAccept(c, d)
  PROVE  RuleInv'
<1> DEFINE t == [Idle EXCEPT !.step = "written", !.kind = "accept", !.doc = d]
<1>0. tx \in [Clients -> Txs] /\ docTx \in [Specs -> Clients \union {None}]
  BY DEF RuleInv, RowTypes
<1>1. /\ tx' = [tx EXCEPT ![c] = t] /\ docTx' = [docTx EXCEPT ![d] = c] /\ docTx[d] = None
      /\ state[d] = "draft"
      /\ UNCHANGED <<ruleVars, specVars, candidate>>
  BY DEF OpenAccept
<1>2. /\ t \in Txs /\ t.step = "written" /\ t.kind = "accept" /\ t.doc = d /\ t.done = {}
      /\ t.saw = Nothing
  BY IdleTyped DEF Txs, Idle
<1> HIDE DEF t
<1>3. tx'[c] = t BY <1>0, <1>1
<1>4. TxInv(c)'
  BY <1>0, <1>1, <1>2, <1>3
  DEF TxInv, DocHeld, Opened, Read, Written, Published, Nothing, specVars
<1> QED BY <1>0, <1>1, <1>2, <1>4, QuietOwn

\* A publication: the drafts that the spec arranges are accepted with it, so that
\* the other rules it arranges are at accepted versions.
LEMMA Publishes == ASSUME RuleInv, NEW c \in Clients, AcceptDocRules(c) PROVE RuleInv'
<1> DEFINE s == tx[c]
           a == IF s.kind = "land" THEN s.new ELSE shows[s.doc]
           R == {r \in Rules : a[r] # 0 /\ IsDraft(s, r)}
           t == [s EXCEPT !.step = "done", !.takes = R, !.todo = Behind(s, R),
                          !.bumps = {e \in Behind(s, R) : state[e] = "accepted"}]
<1>0. /\ RowTypes /\ InRange /\ s \in Txs /\ tx \in [Clients -> Txs]
      /\ docTx \in [Specs -> Clients \union {None}] /\ TxInv(c)
  BY DEF RuleInv, RowTypes
<1>1. /\ s.step = "written" /\ docTx' = docTx /\ tx' = [tx EXCEPT ![c] = t]
      /\ UNCHANGED <<ruleVars, specVars, candidate>>
  BY DEF AcceptDocRules, Accepting
<1>2. R \subseteq Rules /\ Behind(s, R) \subseteq Specs BY DEF Behind
<1>3. \A r \in Rules \ R : a[r] = 0 \/ ~IsDraft(s, r) OBVIOUS
<1> HIDE DEF R
<1>4. /\ t \in Txs /\ t.step = "done" /\ t.takes = R /\ t.kind = s.kind /\ t.doc = s.doc
      /\ t.saw = s.saw /\ t.new = s.new /\ t.done = s.done /\ t.says = s.says
  BY <1>0, <1>2 DEF Txs
<1> HIDE DEF t
<1>5. tx'[c] = t BY <1>0, <1>1
<1>6. DocHeld(c)' BY <1>0, <1>1, <1>4, <1>5 DEF TxInv, DocHeld, specVars
<1>7. \A r \in Rules : Latest(tx[c], r)' = Latest(s, r)
  BY <1>1, <1>4, <1>5 DEF Latest, Bumped, Changed, Version, ruleVars
<1>8. Written(c)'
  BY <1>0, <1>1, <1>4, <1>5, <1>7 DEF TxInv, Written, specVars
<1>9. ASSUME NEW r \in Rules \ R
      PROVE  /\ s.kind = "land" => s.new[r] <= Fixed(r)
             /\ s.kind = "accept" => shows[s.doc][r] <= Fixed(r)
  <2>1. Fixed(r) \in Nat BY <1>0, VersionTypes
  <2>2. ~IsDraft(s, r) => Fixed(r) = Version(r) /\ Latest(s, r) = Version(r)
    BY <1>0, VersionTypes DEF IsDraft, Fixed, Latest
  <2>3. s.kind = "land" => s.new[r] <= Latest(s, r)
    BY <1>0, <1>1 DEF TxInv, Written
  <2>4. s.kind = "accept" => shows[s.doc][r] <= Version(r)
    BY <1>0 DEF TxInv, DocHeld, InRange
  <2> QED BY <1>3, <2>1, <2>2, <2>3, <2>4
<1>10. Published(c)'
  BY <1>1, <1>4, <1>5, <1>9 DEF Published, Fixed, Version, ruleVars, specVars
<1>11. Opened(c)' /\ Read(c)'
  BY <1>0, <1>1, <1>4, <1>5 DEF Opened, Read, TxInv, Version, ruleVars
<1>12. t.kind \in Tables => \A o \in Clients : t.doc \notin tx[o].done
  BY <1>4 DEF RuleInv, Undisturbed
<1> QED BY <1>0, <1>1, <1>4, <1>6, <1>8, <1>10, <1>11, <1>12, QuietOwn DEF TxInv

LEMMA RuleAccepts ==
  ASSUME RuleInv, NEW c \in Clients, NEW r \in Rules, AcceptRule(c, r) PROVE RuleInv'
<1> DEFINE s == [Idle EXCEPT !.kind = "rule"]
           B == {e \in Behind(s, {r}) : state[e] = "accepted"}
           t == [s EXCEPT !.step = "done", !.takes = {r}, !.todo = Behind(s, {r}), !.bumps = B]
<1>0. tx \in [Clients -> Txs] /\ docTx \in [Specs -> Clients \union {None}]
  BY DEF RuleInv, RowTypes
<1>1. /\ docTx' = docTx /\ tx' = [tx EXCEPT ![c] = t]
      /\ UNCHANGED <<ruleVars, specVars, candidate>>
  BY DEF AcceptRule, Accepting
<1>2. Behind(s, {r}) \subseteq Specs /\ B \subseteq Specs BY DEF Behind
<1>3. s \in Txs /\ s.kind = "rule" /\ s.done = {} /\ s.saw = Nothing BY IdleTyped DEF Txs, Idle
<1> HIDE DEF s, B
<1>4. t \in Txs /\ t.step = "done" /\ t.kind = "rule" /\ t.done = {} /\ t.saw = Nothing
  BY <1>2, <1>3 DEF Txs
<1> HIDE DEF t
<1>5. tx'[c] = t BY <1>0, <1>1
<1>6. TxInv(c)'
  BY <1>4, <1>5 DEF TxInv, DocHeld, Opened, Read, Written, Published, Nothing
<1> QED BY <1>0, <1>1, <1>4, <1>6, QuietOwn

\* EditRule rewrites a draft in place, at a version that no accepted spec shows.
LEMMA EditKeeps ==
  ASSUME RuleInv, NEW r \in Rules, NEW says \in Texts, EditRule(r, says)
  PROVE  RuleInv'
<1>1. RowTypes /\ InRange BY DEF RuleInv
<1>2. /\ \A q \in Rules \ {r} : text'[q] = text[q] /\ status'[q] = status[q]
      /\ status'[r] = "draft" /\ text'[r] \in Seq(Texts)
      /\ text'[r] # <<>>
      /\ Version(r)' = IF status[r] = "draft" THEN Version(r) ELSE Version(r) + 1
      /\ text' \in [Rules -> Seq(Texts)] /\ status' \in [Rules -> Statuses]
  <2>1. /\ text \in [Rules -> Seq(Texts)] /\ text[r] \in Seq(Texts) /\ text[r] # <<>>
        /\ status \in [Rules -> Statuses]
    BY <1>1 DEF RowTypes
  <2>2. status' = [status EXCEPT ![r] = "draft"] BY DEF EditRule
  <2>3. CASE status[r] = "draft"
    <3> DEFINE z == [text[r] EXCEPT ![Version(r)] = says]
    <3>1. text' = [text EXCEPT ![r] = z] BY <2>3 DEF EditRule
    <3>2. z \in Seq(Texts) /\ Len(z) = Len(text[r]) BY <2>1, InPlace
    <3> HIDE DEF z
    <3>3. Len(text[r]) # 0 BY <2>1
    <3>4. z # <<>> BY <3>2, <3>3
    <3> QED BY <2>1, <2>2, <2>3, <3>1, <3>2, <3>4 DEF Version
  <2>4. CASE status[r] # "draft"
    <3> DEFINE z == Append(text[r], says)
    <3>1. text' = [text EXCEPT ![r] = z] BY <2>4 DEF EditRule
    <3>2. z \in Seq(Texts) /\ Len(z) = Len(text[r]) + 1 BY <2>1, OneLonger
    <3> HIDE DEF z
    <3>3. z # <<>> BY <2>1, <3>2
    <3> QED BY <2>1, <2>2, <2>4, <3>1, <3>2, <3>3 DEF Version
  <2> QED BY <2>3, <2>4
<1>3. UNCHANGED <<specVars, docTx, candidate, tx>> BY DEF EditRule, locks
<1>4. RowTypes' BY <1>1, <1>2, <1>3 DEF RowTypes, specVars
<1>5. RowsGrow
  <2> SUFFICES ASSUME NEW q \in Rules
               PROVE  Version(q) <= Version(q)' /\ Fixed(q) <= Fixed(q)'
    BY DEF RowsGrow
  <2>1. Version(q) \in Nat /\ Fixed(q) \in Nat BY <1>1, VersionTypes
  <2> QED BY <1>2, <2>1 DEF Version, Fixed
<1> QED BY <1>3, <1>4, <1>5, RowsStep

\* Candidates are nobody's business but their spec's.
LEMMA Revises ==
  ASSUME RuleInv, NEW d \in Specs,
         ReviseDoc(d) \/ (\E says \in Wording : UpdateRevision(d, says)) \/ DiscardRevision(d)
  PROVE  RuleInv'
<1>1. RowTypes /\ InRange BY DEF RuleInv
<1>2. UNCHANGED <<ruleVars, specVars, docTx, tx>>
  BY DEF ReviseDoc, UpdateRevision, DiscardRevision, locks
<1>3. PICK v \in [shows : [Rules -> Nat], says : Wording] \union {None} :
         /\ candidate' = [candidate EXCEPT ![d] = v]
         /\ v # None => \A r \in Rules : v.shows[r] <= Version(r)
  <2>0. /\ shows[d] \in [Rules -> Nat] /\ Shown(d) \in Wording
        /\ candidate[d] \in [shows : [Rules -> Nat], says : Wording] \union {None}
        /\ \A r \in Rules : /\ Version(r) \in Nat /\ shows[d][r] <= Version(r)
                            /\ candidate[d] # None => candidate[d].shows[r] <= Version(r)
    BY <1>1, ShownTyped, VersionTypes DEF RowTypes, InRange
  <2>1. CASE ReviseDoc(d)
    <3> DEFINE v == [shows |-> shows[d], says |-> Shown(d)]
    <3>1. candidate' = [candidate EXCEPT ![d] = v] BY <2>1 DEF ReviseDoc
    <3>2. v \in [shows : [Rules -> Nat], says : Wording] /\ v.shows = shows[d] BY <2>0
    <3>3. v # None => \A r \in Rules : v.shows[r] <= Version(r) BY <2>0, <3>2
    <3>4. v \in [shows : [Rules -> Nat], says : Wording] \union {None} BY <3>2
    <3> HIDE DEF v
    <3> QED BY <3>1, <3>3, <3>4
  <2>2. ASSUME NEW says \in Wording, UpdateRevision(d, says)
        PROVE  \E v \in [shows : [Rules -> Nat], says : Wording] \union {None} :
                  /\ candidate' = [candidate EXCEPT ![d] = v]
                  /\ v # None => \A r \in Rules : v.shows[r] <= Version(r)
    <3> DEFINE a == [r \in Rules |-> IF says[r] = None THEN 0 ELSE candidate[d].shows[r]]
               v == [says |-> says, shows |-> a]
    <3>1. candidate' = [candidate EXCEPT ![d] = v] /\ candidate[d] # None
      BY <1>1, <2>2 DEF UpdateRevision, RowTypes
    <3>2. candidate[d].shows \in [Rules -> Nat] BY <2>0, <3>1
    <3>3. \A r \in Rules : /\ candidate[d].shows[r] \in Nat /\ Version(r) \in Nat
                           /\ candidate[d].shows[r] <= Version(r)
      BY <2>0, <3>1, <3>2
    <3>4. a \in [Rules -> Nat] BY <3>3
    <3>5. \A r \in Rules : a[r] <= Version(r) BY <3>3
    <3> HIDE DEF a
    <3>6. v \in [shows : [Rules -> Nat], says : Wording] /\ v.shows = a BY <3>4
    <3>7. v # None => \A r \in Rules : v.shows[r] <= Version(r) BY <3>5, <3>6
    <3>8. v \in [shows : [Rules -> Nat], says : Wording] \union {None} BY <3>6
    <3> HIDE DEF v
    <3> QED BY <3>1, <3>7, <3>8
  <2>3. CASE DiscardRevision(d) BY <2>3 DEF DiscardRevision
  <2> QED BY <2>1, <2>2, <2>3
<1>4. candidate \in [Specs -> [shows : [Rules -> Nat], says : Wording] \union {None}]
  BY <1>1 DEF RowTypes
<1>5. RowTypes' BY <1>1, <1>2, <1>3, <1>4 DEF RowTypes, ruleVars, specVars
<1>6. RowsGrow
  BY <1>1, <1>2, VersionTypes DEF RowsGrow, Version, Fixed, ruleVars
<1>7. InRange'
  <2>1. \A e \in Specs : candidate'[e] = IF e = d THEN v ELSE candidate[e]
    BY <1>3, <1>4
  <2> QED BY <1>1, <1>2, <1>3, <2>1 DEF InRange, Version, Fixed, ruleVars, specVars
<1> QED BY <1>2, <1>5, <1>6, <1>7, RowsStep

-----------------------------------------------------------------------------
(* Moves of specs to the accepted rules *)

\* A transaction's moves change only what it has still to do and has done.
LEMMA MoveKeeps ==
  ASSUME RuleInv, NEW c \in Clients, NEW e \in Specs, NEW t \in Txs,
         UNCHANGED <<ruleVars, specVars, candidate>>, tx' = [tx EXCEPT ![c] = t],
         docTx' \in [Specs -> Clients \union {None}],
         \A d \in Specs : docTx[d] \in Clients => docTx'[d] = docTx[d],
         t.step = tx[c].step, t.kind = tx[c].kind, t.doc = tx[c].doc, t.saw = tx[c].saw,
         t.says = tx[c].says, t.new = tx[c].new, t.takes = tx[c].takes,
         t.done \subseteq tx[c].done \union {e},
         e \in t.done => \A o \in Clients : ~Rearranging(e, o)
  PROVE  RuleInv'
<1>1. /\ RowTypes /\ Undisturbed /\ TxInv(c) /\ tx \in [Clients -> Txs]
      /\ \A o \in Clients : DocHeld(o)
  BY DEF RuleInv, RowTypes, TxInv
<1>2. tx'[c] = t /\ \A o \in Clients \ {c} : tx'[o] = tx[o] BY <1>1
<1>3. tx' \in [Clients -> Txs] BY <1>1
<1>4. \A o \in Clients : tx'[o].kind = tx[o].kind /\ tx'[o].doc = tx[o].doc
  BY <1>2
<1>5. Undisturbed'
  <2> SUFFICES ASSUME NEW o \in Clients, NEW p \in Clients, tx[o].kind \in Tables,
                      tx[o].doc \in tx'[p].done
               PROVE  FALSE
    BY <1>4 DEF Undisturbed
  <2>1. tx[o].doc \notin tx[p].done BY <1>1 DEF Undisturbed
  <2>2. p = c /\ tx[o].doc = e /\ e \in t.done BY <1>2, <2>1
  <2> QED BY <2>2 DEF Rearranging
<1>6. RowTypes' BY <1>1, <1>3 DEF RowTypes, ruleVars, specVars
<1>7. RowsGrow BY <1>1, VersionTypes DEF RowsGrow, Version, Fixed, ruleVars
<1>8. TxInv(c)'
  <2>1. tx[c].doc \in Specs /\ docTx[tx[c].doc] = c =>
          docTx'[tx[c].doc] = c /\ state'[tx[c].doc] = state[tx[c].doc]
    BY DEF specVars
  <2>2. shows' = shows BY DEF specVars
  <2>3. SameWork(c) BY <1>2 DEF SameWork
  <2> QED BY <1>1, <1>6, <1>7, <2>1, <2>2, <2>3, Bystander
<1>9. \A o \in Clients \ {c} : SameWork(o) BY <1>2 DEF SameWork
<1> QED BY <1>3, <1>5, <1>8, <1>9, Quiet

LEMMA BumpMoves ==
  ASSUME RuleInv, NEW c \in Clients, NEW e \in Specs, MoveBumped(c, e)
  PROVE  RuleInv'
<1> DEFINE t == [tx[c] EXCEPT !.todo = @ \ {e}, !.done = @ \union {e}]
<1>1. tx \in [Clients -> Txs] /\ tx[c] \in Txs /\ docTx \in [Specs -> Clients \union {None}]
  BY DEF RuleInv, RowTypes
<1>2. /\ tx' = [tx EXCEPT ![c] = t] /\ docTx' = [docTx EXCEPT ![e] = c] /\ docTx[e] = None
      /\ UNCHANGED <<ruleVars, specVars, candidate>>
  BY <1>1 DEF MoveBumped
<1>3. /\ t \in Txs /\ t.done = tx[c].done \union {e}
      /\ t.step = tx[c].step /\ t.kind = tx[c].kind /\ t.doc = tx[c].doc /\ t.saw = tx[c].saw
      /\ t.says = tx[c].says /\ t.new = tx[c].new /\ t.takes = tx[c].takes
  BY <1>1 DEF Txs
<1> HIDE DEF t
<1>4. \A o \in Clients : ~Rearranging(e, o)
  BY <1>2 DEF Rearranging, RuleInv, TxInv, DocHeld
<1> QED BY <1>1, <1>2, <1>3, <1>4, MoveKeeps

LEMMA DraftMoves ==
  ASSUME RuleInv, NEW c \in Clients, NEW e \in Specs, MoveDraft(c, e)
  PROVE  RuleInv'
<1> DEFINE u == [tx[c] EXCEPT !.todo = @ \ {e}, !.stuck = @ \union {e}]
           v == [tx[c] EXCEPT !.todo = @ \ {e}, !.done = @ \union {e}]
           b == \E o \in Clients : Rearranging(e, o)
           t == IF b THEN u ELSE v
<1>1. tx \in [Clients -> Txs] /\ tx[c] \in Txs /\ docTx \in [Specs -> Clients \union {None}]
  BY DEF RuleInv, RowTypes
<1>2. /\ tx' = [tx EXCEPT ![c] = t] /\ docTx' = docTx
      /\ UNCHANGED <<ruleVars, specVars, candidate>>
  BY <1>1 DEF MoveDraft, locks
<1>3. /\ u \in Txs /\ u.done = tx[c].done
      /\ u.step = tx[c].step /\ u.kind = tx[c].kind /\ u.doc = tx[c].doc /\ u.saw = tx[c].saw
      /\ u.says = tx[c].says /\ u.new = tx[c].new /\ u.takes = tx[c].takes
  BY <1>1 DEF Txs
<1>4. /\ v \in Txs /\ v.done = tx[c].done \union {e}
      /\ v.step = tx[c].step /\ v.kind = tx[c].kind /\ v.doc = tx[c].doc /\ v.saw = tx[c].saw
      /\ v.says = tx[c].says /\ v.new = tx[c].new /\ v.takes = tx[c].takes
  BY <1>1 DEF Txs
<1> HIDE DEF u, v
<1>5. CASE b
  <2>1. \A d \in Specs : docTx[d] \in Clients => docTx'[d] = docTx[d] BY <1>2
  <2>2. t = u BY <1>5
  <2>3. e \notin tx[c].done BY <1>5 DEF Rearranging, RuleInv, Undisturbed
  <2> QED BY <1>1, <1>2, <1>3, <2>1, <2>2, <2>3, MoveKeeps
<1>6. CASE ~b
  <2>1. \A d \in Specs : docTx[d] \in Clients => docTx'[d] = docTx[d] BY <1>2
  <2>2. t = v BY <1>6
  <2>3. \A o \in Clients : ~Rearranging(e, o) BY <1>6
  <2> HIDE DEF b
  <2> QED BY <1>1, <1>2, <1>4, <2>1, <2>2, <2>3, MoveKeeps
<1> QED BY <1>5, <1>6

-----------------------------------------------------------------------------
(* Ends of transactions *)

\* The transaction s is t, but for the specs it has still to move.
Woken(s, t) ==
  /\ s \in Txs /\ s.step = t.step /\ s.kind = t.kind /\ s.doc = t.doc /\ s.saw = t.saw
  /\ s.says = t.says /\ s.new = t.new /\ s.takes = t.takes /\ s.done = t.done

\* Ending wakes those that wait, and releases the ender's rows.
LEMMA Ended ==
  ASSUME RuleInv, NEW c \in Clients, NEW d, NEW next, Release(c),
         tx' = Others(c, d, next),
         \A o \in Clients : Woken(next[o], tx[o])
  PROVE  /\ tx' \in [Clients -> Txs] /\ tx'[c] = Idle
         /\ \A o \in Clients \ {c} : SameWork(o) /\ tx'[o].done = tx[o].done
         /\ docTx' \in [Specs -> Clients \union {None}]
         /\ \A e \in Specs : docTx[e] \in Clients \ {c} => docTx'[e] = docTx[e]
<1>1. tx \in [Clients -> Txs] /\ docTx \in [Specs -> Clients \union {None}]
  BY DEF RuleInv, RowTypes
<1>2. \A o \in Clients : Woken(tx[o], tx[o]) /\ next[o] \in Txs
  BY <1>1 DEF Woken
<1>3. tx' \in [Clients -> Txs] /\ tx'[c] = Idle
  BY <1>1, <1>2, IdleTyped DEF Others
<1>4. \A o \in Clients \ {c} : Woken(tx'[o], tx[o])
  <2> TAKE o \in Clients \ {c}
  <2>1. tx'[o] = next[o] \/ tx'[o] = tx[o] BY DEF Others
  <2> QED BY <1>2, <2>1
<1>5. \A o \in Clients \ {c} : SameWork(o) /\ tx'[o].done = tx[o].done
  BY <1>4 DEF SameWork, Woken
<1>6. docTx' = [e \in Specs |-> IF docTx[e] = c THEN None ELSE docTx[e]]
  BY DEF Release
<1> QED BY <1>1, <1>3, <1>5, <1>6

\* A transaction that ends without having changed anything.
LEMMA EndQuiet ==
  ASSUME RuleInv, NEW c \in Clients, UNCHANGED <<ruleVars, specVars, candidate>>,
         tx' \in [Clients -> Txs], tx'[c] = Idle,
         \A o \in Clients \ {c} : SameWork(o) /\ tx'[o].done = tx[o].done,
         docTx' \in [Specs -> Clients \union {None}],
         \A e \in Specs : docTx[e] \in Clients \ {c} => docTx'[e] = docTx[e]
  PROVE  RuleInv'
<1>1. TxInv(c)'
  BY DEF TxInv, DocHeld, Opened, Read, Written, Published, Idle, Nothing
<1>2. Undisturbed' BY DEF RuleInv, Undisturbed, SameWork, Idle
<1> QED BY <1>1, <1>2, Quiet

LEMMA Aborts == ASSUME RuleInv, NEW c \in Clients, Abort(c) PROVE RuleInv'
<1> DEFINE d == tx[c].doc
           n == [o \in Clients |->
                  [tx[o] EXCEPT !.stuck = @ \ {d}, !.todo = @ \union {d}]]
<1>1. tx \in [Clients -> Txs] /\ Undisturbed BY DEF RuleInv, RowTypes
<1>2. /\ tx' = Others(c, d, n) /\ Release(c) /\ UNCHANGED <<ruleVars, specVars, candidate>>
  BY DEF Abort
<1>3. CASE d \in Specs
  <2>1. \A o \in Clients : Woken(n[o], tx[o])
    <3> TAKE o \in Clients
    <3> DEFINE s == tx[o]  x == [s EXCEPT !.stuck = @ \ {d}, !.todo = @ \union {d}]
    <3>1. s \in Txs /\ n[o] = x BY <1>1
    <3> HIDE DEF s, d, n
    <3>2. x \in Txs BY <1>3, <3>1 DEF Txs
    <3>3. /\ x.step = s.step /\ x.kind = s.kind /\ x.doc = s.doc /\ x.saw = s.saw
          /\ x.says = s.says /\ x.new = s.new /\ x.takes = s.takes /\ x.done = s.done
      BY <3>1 DEF Txs
    <3> QED BY <3>1, <3>2, <3>3 DEF Woken, s
  <2> HIDE DEF n, d
  <2>2. /\ tx' \in [Clients -> Txs] /\ tx'[c] = Idle
        /\ \A o \in Clients \ {c} : SameWork(o) /\ tx'[o].done = tx[o].done
        /\ docTx' \in [Specs -> Clients \union {None}]
        /\ \A e \in Specs : docTx[e] \in Clients \ {c} => docTx'[e] = docTx[e]
    BY <1>2, <2>1, Ended
  <2> QED BY <1>1, <1>2, <2>2, EndQuiet
<1>4. CASE d \notin Specs
  <2>1. \A o \in Clients : d \notin tx[o].stuck BY <1>1, <1>4 DEF Txs
  <2>2. tx' = Others(c, d, tx)
    BY <1>2, <2>1 DEF Others
  <2>3. \A o \in Clients : Woken(tx[o], tx[o]) BY <1>1 DEF Woken
  <2> HIDE DEF n, d
  <2>4. /\ tx' \in [Clients -> Txs] /\ tx'[c] = Idle
        /\ \A o \in Clients \ {c} : SameWork(o) /\ tx'[o].done = tx[o].done
        /\ docTx' \in [Specs -> Clients \union {None}]
        /\ \A e \in Specs : docTx[e] \in Clients \ {c} => docTx'[e] = docTx[e]
    BY <1>2, <2>2, <2>3, Ended
  <2> QED BY <1>1, <1>2, <2>4, EndQuiet
<1> QED BY <1>3, <1>4

\* What a commit makes of the rules.
LEMMA CommitRules ==
  ASSUME RuleInv, NEW c \in Clients, Commit(c), NEW r \in Rules
  PROVE  /\ text'[r] \in Seq(Texts) /\ text'[r] # <<>> /\ status'[r] \in Statuses
         /\ Version(r)' = Latest(tx[c], r)
         /\ Version(r) <= Version(r)' /\ Fixed(r) <= Fixed(r)'
         /\ r \in tx[c].takes => Fixed(r)' = Version(r)'
         /\ r \notin tx[c].takes => Fixed(r)' <= Version(r)'
         /\ Version(r)' \in Nat /\ Fixed(r)' \in Nat
<1> DEFINE t == tx[c]
<1>1. /\ t \in Txs /\ text[r] \in Seq(Texts) /\ text[r] # <<>> /\ status[r] \in Statuses
      /\ RowTypes /\ Read(c)
  BY DEF RuleInv, RowTypes, TxInv
<1>2. /\ text'[r] = IF r \in Bumped(t) THEN Append(text[r], t.says[r])
                    ELSE IF r \in Changed(t) THEN [text[r] EXCEPT ![t.saw[r].version] = t.says[r]]
                    ELSE text[r]
      /\ status'[r] = IF r \in t.takes THEN "accepted" ELSE IF r \in Bumped(t) THEN "draft"
                      ELSE status[r]
  BY DEF Commit
<1>3. r \in Changed(t) => t.says[r] \in Texts
  <2>1. t.says[r] \in Texts \union {None} BY <1>1 DEF Txs, Wording
  <2> QED BY <1>1, <2>1 DEF Changed, Read
<1>4. Bumped(t) \subseteq Changed(t) BY DEF Bumped
<1>5. text'[r] \in Seq(Texts) /\ Len(text'[r]) = IF r \in Bumped(t) THEN Len(text[r]) + 1
                                               ELSE Len(text[r])
  <2>1. CASE r \in Bumped(t) BY <1>1, <1>2, <1>3, <1>4, <2>1, OneLonger
  <2>2. CASE r \notin Bumped(t) /\ r \in Changed(t) BY <1>1, <1>2, <1>3, <2>2, InPlace
  <2>3. CASE r \notin Bumped(t) /\ r \notin Changed(t) BY <1>1, <1>2, <2>3
  <2> QED BY <2>1, <2>2, <2>3
<1>6. Version(r) \in Nat \ {0} /\ Fixed(r) \in Nat /\ Fixed(r) <= Version(r)
  BY <1>1, VersionTypes
<1>7. Len(text'[r]) # 0 BY <1>5, <1>6 DEF Version
<1>8. text'[r] # <<>> BY <1>7
<1> HIDE DEF t
<1>9. Version(r)' = Latest(t, r) BY <1>5 DEF Version, Latest
<1>10. status'[r] \in Statuses BY <1>1, <1>2
<1> QED BY <1>2, <1>5, <1>6, <1>8, <1>9, <1>10 DEF Fixed, Version, Latest, t

\* And of the arrangements.
LEMMA CommitShows ==
  ASSUME RuleInv, NEW c \in Clients, Commit(c), NEW d \in Specs
  PROVE  /\ shows'[d] \in [Rules -> Nat]
         /\ d = tx[c].doc /\ tx[c].kind \in Tables => shows'[d] = tx[c].new
         /\ ~(d = tx[c].doc /\ tx[c].kind \in Tables) =>
              \A r \in Rules :
                \/ shows'[d][r] = shows[d][r]
                \/ /\ d \in tx[c].done /\ r \in tx[c].takes /\ shows[d][r] # 0
                   /\ shows'[d][r] = Max2(shows[d][r], Latest(tx[c], r))
         /\ ~(d = tx[c].doc /\ tx[c].kind \in Tables) /\ d \notin tx[c].done =>
              shows'[d] = shows[d]
<1> DEFINE t == tx[c]
<1>1. t \in Txs /\ RowTypes /\ shows[d] \in [Rules -> Nat] BY DEF RuleInv, RowTypes
<1>2. shows'[d] = IF t.kind \in Tables /\ d = t.doc THEN t.new
                  ELSE IF d \in t.done THEN Moved(t, d) ELSE shows[d]
  BY DEF Commit
<1>3. t.new \in [Rules -> Nat] BY <1>1 DEF Txs
<1>4. \A r \in Rules : shows[d][r] \in Nat /\ Latest(t, r) \in Nat
  BY <1>1, VersionTypes DEF Latest
<1> HIDE DEF t
<1>5. \A r \in Rules : Moved(t, d)[r] = IF r \in t.takes /\ shows[d][r] # 0
                                       THEN Max2(shows[d][r], Latest(t, r)) ELSE shows[d][r]
  BY DEF Moved
<1>6. Moved(t, d) \in [Rules -> Nat] BY <1>4 DEF Moved, Max2
<1> QED BY <1>1, <1>2, <1>3, <1>5, <1>6 DEF t

LEMMA Commits == ASSUME RuleInv, NEW c \in Clients, Commit(c) PROVE RuleInv'
<1> DEFINE t == tx[c]
           n == [o \in Clients |-> [tx[o] EXCEPT !.stuck = @ \ {t.doc}]]
<1>1. /\ RowTypes /\ InRange /\ Undisturbed /\ TxInv(c)
      /\ tx \in [Clients -> Txs] /\ t \in Txs
      /\ state \in [Specs -> Statuses] /\ shows \in [Specs -> [Rules -> Nat]]
      /\ candidate \in [Specs -> [shows : [Rules -> Nat], says : Wording] \union {None}]
  BY DEF RuleInv, RowTypes
<1>2. /\ t.step = "done" /\ tx' = Others(c, t.doc, n) /\ Release(c)
      /\ \A d \in Specs : /\ state'[d] = IF t.kind = "accept" /\ d = t.doc THEN "accepted" ELSE state[d]
                          /\ candidate'[d] = IF t.kind = "land" /\ d = t.doc THEN None ELSE candidate[d]
  BY DEF Commit
<1>3. \A o \in Clients : Woken(n[o], tx[o])
  <2> TAKE o \in Clients
  <2> DEFINE s == tx[o]  x == [s EXCEPT !.stuck = @ \ {t.doc}]
  <2>1. s \in Txs /\ n[o] = x BY <1>1
  <2> HIDE DEF s, n
  <2>2. x \in Txs BY <2>1 DEF Txs
  <2>3. /\ x.step = s.step /\ x.kind = s.kind /\ x.doc = s.doc /\ x.saw = s.saw
        /\ x.says = s.says /\ x.new = s.new /\ x.takes = s.takes /\ x.done = s.done
    BY <2>1 DEF Txs
  <2> QED BY <2>1, <2>2, <2>3 DEF Woken, s
<1> HIDE DEF n
<1>4. /\ tx' \in [Clients -> Txs] /\ tx'[c] = Idle
      /\ \A o \in Clients \ {c} : SameWork(o) /\ tx'[o].done = tx[o].done
      /\ docTx' \in [Specs -> Clients \union {None}]
      /\ \A e \in Specs : docTx[e] \in Clients \ {c} => docTx'[e] = docTx[e]
  BY <1>2, <1>3, Ended
<1>5. RowTypes'
  <2>1. text' \in [Rules -> Seq(Texts)] /\ status' \in [Rules -> Statuses]
        /\ \A r \in Rules : text'[r] # <<>>
    <3>1. \E f, g : text' = [r \in Rules |-> f[r]] /\ status' = [r \in Rules |-> g[r]]
      <4> DEFINE f == [r \in Rules |-> IF r \in Bumped(t) THEN Append(text[r], t.says[r])
                   ELSE IF r \in Changed(t) THEN [text[r] EXCEPT ![t.saw[r].version] = t.says[r]]
                   ELSE text[r]]
                 g == [r \in Rules |-> IF r \in t.takes THEN "accepted"
                                       ELSE IF r \in Bumped(t) THEN "draft" ELSE status[r]]
      <4>1. text' = f /\ status' = g BY DEF Commit
      <4>2. f = [r \in Rules |-> f[r]] /\ g = [r \in Rules |-> g[r]] OBVIOUS
      <4> HIDE DEF f, g
      <4> QED BY <4>1, <4>2
    <3>2. \A r \in Rules : text'[r] \in Seq(Texts) /\ status'[r] \in Statuses /\ text'[r] # <<>>
      BY CommitRules
    <3> QED BY <3>1, <3>2
  <2>2. shows' \in [Specs -> [Rules -> Nat]]
    <3>1. DOMAIN shows' = Specs /\ shows' = [d \in Specs |-> shows'[d]] BY DEF Commit
    <3> QED BY <3>1, CommitShows
  <2>3. state' \in [Specs -> Statuses]
    <3>1. state' = [d \in Specs |-> IF t.kind = "accept" /\ d = t.doc THEN "accepted" ELSE state[d]]
      BY DEF Commit
    <3> QED BY <1>1, <3>1
  <2>4. candidate' \in [Specs -> [shows : [Rules -> Nat], says : Wording] \union {None}]
    <3>1. candidate' = [d \in Specs |-> IF t.kind = "land" /\ d = t.doc THEN None ELSE candidate[d]]
      BY DEF Commit
    <3> QED BY <1>1, <3>1
  <2> QED BY <1>4, <2>1, <2>2, <2>3, <2>4 DEF RowTypes
<1>6. RowsGrow BY CommitRules DEF RowsGrow
<1>7. InRange'
  <2> SUFFICES ASSUME NEW d \in Specs, NEW r \in Rules
               PROVE  /\ shows'[d][r] <= Version(r)'
                      /\ state'[d] = "accepted" => shows'[d][r] <= Fixed(r)'
                      /\ candidate'[d] # None => candidate'[d].shows[r] <= Version(r)'
    BY DEF InRange
  <2>1. /\ Version(r) \in Nat /\ Fixed(r) \in Nat /\ shows[d][r] \in Nat /\ Fixed(r) <= Version(r)
        /\ candidate[d] # None => candidate[d].shows[r] \in Nat
        /\ t.new[r] \in Nat
    BY <1>1, VersionTypes DEF Txs
  <2>2. /\ Version(r)' = Latest(t, r) /\ Version(r) <= Version(r)' /\ Fixed(r) <= Fixed(r)'
        /\ Version(r)' \in Nat /\ Fixed(r)' \in Nat /\ Fixed(r)' <= Version(r)'
        /\ r \in t.takes => Fixed(r)' = Version(r)'
    BY CommitRules
  <2>3. /\ shows[d][r] <= Version(r) /\ (state[d] = "accepted" => shows[d][r] <= Fixed(r))
        /\ candidate[d] # None => candidate[d].shows[r] <= Version(r)
    BY <1>1 DEF InRange
  <2>4. candidate'[d] # None => candidate'[d].shows[r] <= Version(r)'
    BY <1>2, <2>1, <2>2, <2>3
  <2>5. CASE d = t.doc /\ t.kind \in Tables
    <3>1. shows'[d][r] = t.new[r] BY <2>5, CommitShows
    <3>2. t.new[r] <= Latest(t, r) BY <1>1, <1>2, <2>5 DEF TxInv, Written
    <3>3. state'[d] = "accepted" => t.kind = "land"
      BY <1>1, <1>2, <2>5 DEF TxInv, DocHeld
    <3>4. r \notin t.takes /\ t.kind = "land" => t.new[r] <= Fixed(r)
      BY <1>1, <1>2, <2>5 DEF TxInv, Published
    <3> QED BY <2>1, <2>2, <2>4, <3>1, <3>2, <3>3, <3>4
  <2>6. CASE ~(d = t.doc /\ t.kind \in Tables)
    <3>1. \/ shows'[d][r] = shows[d][r]
          \/ r \in t.takes /\ shows'[d][r] = Max2(shows[d][r], Latest(t, r))
      BY <2>6, CommitShows
    <3>2. shows'[d][r] <= Version(r)' BY <2>1, <2>2, <2>3, <3>1 DEF Max2
    <3>3. state'[d] = "accepted" => shows'[d][r] <= Fixed(r)'
      <4>1. CASE r \in t.takes BY <2>2, <3>2, <4>1
      <4>2. CASE r \notin t.takes
        <5>1. shows'[d][r] = shows[d][r] BY <3>1, <4>2
        <5>2. state'[d] = "accepted" => shows[d][r] <= Fixed(r)
          BY <1>1, <1>2, <2>3, <4>2 DEF TxInv, Published
        <5> QED BY <2>1, <2>2, <5>1, <5>2
      <4> QED BY <4>1, <4>2
    <3> QED BY <2>4, <3>2, <3>3
  <2> QED BY <2>5, <2>6
<1>8. Undisturbed' BY <1>1, <1>4 DEF Undisturbed, SameWork, Idle
<1>9. ASSUME NEW o \in Clients \ {c} PROVE TxInv(o)'
  <2>1. TxInv(o) /\ SameWork(o) /\ tx[o] \in Txs BY <1>1, <1>4 DEF RuleInv
  <2>2. tx[o].doc \in Specs /\ docTx[tx[o].doc] = o =>
           docTx'[tx[o].doc] = o /\ state'[tx[o].doc] = state[tx[o].doc]
    <3> SUFFICES ASSUME tx[o].doc \in Specs, docTx[tx[o].doc] = o
                 PROVE  docTx'[tx[o].doc] = o /\ state'[tx[o].doc] = state[tx[o].doc]
      OBVIOUS
    <3>1. t.kind = "accept" => tx[o].doc # t.doc BY <1>1 DEF TxInv, DocHeld
    <3> QED BY <1>2, <1>4, <3>1
  <2>3. tx[o].kind \in Tables \union {"accept"} =>
           /\ tx[o].doc \in Specs
           /\ ~(tx[o].doc = t.doc /\ t.kind \in Tables)
    BY <1>1, <2>1 DEF TxInv, DocHeld
  <2>4. tx[o].kind \in Tables => shows'[tx[o].doc] = shows[tx[o].doc]
    <3>1. tx[o].kind \in Tables => tx[o].doc \notin t.done BY <1>1 DEF Undisturbed
    <3> QED BY <2>3, <3>1, CommitShows
  <2>5. tx[o].kind = "accept" => \A r \in Rules :
            \/ shows'[tx[o].doc][r] = shows[tx[o].doc][r]
            \/ shows'[tx[o].doc][r] <= Fixed(r)'
    <3> SUFFICES ASSUME tx[o].kind = "accept", NEW r \in Rules,
                        shows'[tx[o].doc][r] # shows[tx[o].doc][r]
                 PROVE  shows'[tx[o].doc][r] <= Fixed(r)'
      OBVIOUS
    <3>1. r \in t.takes /\ shows'[tx[o].doc][r] = Max2(shows[tx[o].doc][r], Latest(t, r))
      BY <2>3, CommitShows
    <3>2. shows'[tx[o].doc][r] <= Version(r)' BY <1>7, <2>3 DEF InRange
    <3> QED BY <3>1, <3>2, CommitRules
  <2> QED BY <1>1, <1>5, <1>6, <2>1, <2>2, <2>4, <2>5, Bystander
<1>10. TxInv(c)'
  BY <1>4 DEF TxInv, DocHeld, Opened, Read, Written, Published, Idle, Nothing
<1> QED BY <1>5, <1>7, <1>8, <1>9, <1>10 DEF RuleInv

-----------------------------------------------------------------------------
(* What a spec shows *)

LEMMA RuleInit == Init => RuleInv
<1> SUFFICES ASSUME Init PROVE RuleInv
  OBVIOUS
<1>1. \A c \in Clients : tx[c] = Idle BY DEF Init
<1>2. ASSUME NEW r \in Rules
      PROVE  text[r] \in Seq(Texts) /\ text[r] # <<>> /\ Version(r) = 1
  <2>1. PICK w \in Texts : text[r] = <<w>> BY DEF Init
  <2> QED BY <2>1 DEF Version
<1>3. /\ \A d \in Specs : state[d] = "draft" /\ candidate[d] = None /\ docTx[d] = None
      /\ \A d \in Specs, r \in Rules : shows[d][r] \in {0, 1}
      /\ shows \in [Specs -> [Rules -> Nat]]
  BY DEF Init
<1>4. RowTypes
  <2>1. text \in [Rules -> Seq(Texts)]
    <3>1. text = [r \in Rules |-> text[r]] BY DEF Init
    <3> QED BY <1>2, <3>1
  <2>2. /\ status \in [Rules -> Statuses] /\ state \in [Specs -> Statuses]
        /\ docTx \in [Specs -> Clients \union {None}]
        /\ candidate \in [Specs -> [shows : [Rules -> Nat], says : Wording] \union {None}]
    BY DEF Init
  <2>3. tx \in [Clients -> Txs] BY IdleTyped DEF Init
  <2> QED BY <1>2, <1>3, <2>1, <2>2, <2>3 DEF RowTypes
<1>5. InRange
  <2> SUFFICES ASSUME NEW d \in Specs, NEW r \in Rules
               PROVE  /\ shows[d][r] <= Version(r) /\ state[d] # "accepted"
                      /\ candidate[d] = None
    BY DEF InRange
  <2> QED BY <1>2, <1>3
<1>6. Undisturbed BY <1>1 DEF Undisturbed, Idle
<1>7. \A c \in Clients : TxInv(c)
  BY <1>1 DEF TxInv, DocHeld, Opened, Read, Written, Published, Idle, Nothing
<1> QED BY <1>4, <1>5, <1>6, <1>7 DEF RuleInv

LEMMA RuleStep == RuleInv /\ [Next]_vars => RuleInv'
<1> SUFFICES ASSUME RuleInv, [Next]_vars PROVE RuleInv'
  OBVIOUS
<1>1. CASE Edit
  <2>1. CASE \E c \in Clients, d \in Specs, says \in Wording : OpenSave(c, d, says)
    BY <2>1, SaveOpens
  <2>2. CASE \E c \in Clients, d \in Specs : OpenLand(c, d) BY <2>2, LandOpens
  <2>3. CASE \E c \in Clients : Write(c) BY <2>3, Writes
  <2>4. CASE \E r \in Rules, says \in Texts : EditRule(r, says) BY <2>4, EditKeeps
  <2> QED BY <1>1, <2>1, <2>2, <2>3, <2>4 DEF Edit
<1>2. CASE Revise BY <1>2, Revises DEF Revise
<1>3. CASE Accept
  BY <1>3, AcceptOpens, Publishes, RuleAccepts, BumpMoves, DraftMoves DEF Accept
<1>4. CASE \E c \in Clients : Commit(c) BY <1>4, Commits
<1>5. CASE \E c \in Clients : Abort(c) BY <1>5, Aborts
<1>6. CASE UNCHANGED vars
  <2>1. RowTypes' /\ InRange' /\ Undisturbed'
    BY <1>6 DEF RuleInv, RowTypes, InRange, Undisturbed, Version, Fixed, vars, ruleVars,
                specVars, locks
  <2>2. ASSUME NEW c \in Clients PROVE TxInv(c)'
    <3>1. TxInv(c) BY DEF RuleInv
    <3> QED BY <1>6, <3>1
        DEF TxInv, DocHeld, Opened, Read, Written, Published, Latest, Bumped, Changed,
            Version, Fixed, vars, ruleVars, specVars, locks
  <2> QED BY <2>1, <2>2 DEF RuleInv
<1> QED BY <1>1, <1>2, <1>3, <1>4, <1>5, <1>6 DEF Next

LEMMA RuleInvariance == Spec => []RuleInv
BY RuleInit, RuleStep, PTL DEF Spec

\* Arrangements change in a commit only.
LEMMA ShowsStep == ASSUME [Next]_vars, shows' # shows PROVE \E c \in Clients : Commit(c)
BY DEF Next, Edit, Revise, Accept, OpenSave, OpenLand, Write, EditRule, ReviseDoc,
       UpdateRevision, DiscardRevision, OpenAccept, AcceptDocRules, AcceptRule, Accepting,
       MoveBumped, MoveDraft, Abort, specVars, vars

\* A spec never goes back to an older version of a rule it keeps, whichever texts
\* were read before the rule moved (Max2 in Rewritten, rules.go:185-188): a landed
\* candidate that was opened before the rule moved included.
THEOREM SpecsNeverGoBack == Spec => NeverBack
<1>1. ASSUME RuleInv, [Next]_vars, NEW d \in Specs, NEW r \in Rules, shows'[d][r] # 0
      PROVE  shows'[d][r] >= shows[d][r]
  <2>0. shows[d][r] \in Nat BY <1>1 DEF RuleInv, RowTypes
  <2>1. CASE shows' = shows BY <2>0, <2>1
  <2>2. CASE shows' # shows
    <3>1. PICK c \in Clients : Commit(c) BY <1>1, <2>2, ShowsStep
    <3>2. tx[c].step = "done" /\ TxInv(c) BY <1>1, <3>1 DEF Commit, RuleInv
    <3>3. CASE d = tx[c].doc /\ tx[c].kind \in Tables
      <4>1. shows'[d] = tx[c].new BY <1>1, <3>1, <3>3, CommitShows
      <4>2. tx[c].new[r] = 0 \/ shows[d][r] <= tx[c].new[r]
        BY <3>2, <3>3 DEF TxInv, Written
      <4>3. tx[c].new[r] \in Nat BY <1>1 DEF RuleInv, RowTypes, Txs
      <4> QED BY <1>1, <2>0, <4>1, <4>2, <4>3
    <3>4. CASE ~(d = tx[c].doc /\ tx[c].kind \in Tables)
      <4>1. \/ shows'[d][r] = shows[d][r]
            \/ shows'[d][r] = Max2(shows[d][r], Latest(tx[c], r))
        BY <1>1, <3>1, <3>4, CommitShows
      <4>2. Latest(tx[c], r) \in Nat BY <1>1, VersionTypes DEF Latest, RuleInv
      <4> QED BY <2>0, <4>1, <4>2 DEF Max2
    <3> QED BY <3>3, <3>4
  <2> QED BY <2>1, <2>2
<1>2. RuleInv /\ [Next]_vars =>
        [\A d \in Specs, r \in Rules :
           shows'[d][r] # 0 => shows'[d][r] >= shows[d][r]]_vars
  BY <1>1
<1> QED BY <1>2, RuleInvariance, PTL DEF Spec, NeverBack

-----------------------------------------------------------------------------
(* What the locks on rules and on specs hold *)

\* A rule that a transaction writes or accepts is its own until it ends, and stays
\* as it was read, unless the reading no longer held when it wrote.
RulesHeld(c) ==
  /\ tx[c].step \in {"written", "done"} => \A r \in Changed(tx[c]) :
       /\ ruleTx[r] = c
       /\ r \in Bumped(tx[c]) => Version(r) < MaxVersion
       /\ r \notin crossed => tx[c].saw[r] = [status |-> status[r], version |-> Version(r)]
  /\ \A r \in tx[c].takes : ruleTx[r] = c

\* The specs that a transaction moves, has moved, or waits for.
Moves(c) == tx[c].todo \union tx[c].stuck \union tx[c].done

\* The spec it writes and those it has bumped are below the bound.
CanRise(c) ==
  /\ tx[c].kind \in Tables => at[tx[c].doc] < MaxAt
  /\ \A e \in tx[c].done \intersect tx[c].bumps : docTx[e] = c /\ at[e] < MaxAt

\* A spec that follows without a bump is still a draft.
FollowersDraft(c) ==
  \A e \in Moves(c) \ (tx[c].bumps \union met) : state[e] = "draft"

\* Only an acceptance moves specs, never the one it publishes, and the specs behind
\* the rules that it accepts are those it moves.
NoneMissed(c) ==
  /\ Moves(c) # {} => tx[c].takes # {}
  /\ tx[c].doc \notin Moves(c)
  /\ tx[c].doc \in Specs => tx[c].kind \in Tables \union {"accept"}
  /\ tx[c].takes # {} => tx[c].step = "done" /\ tx[c].kind # "save"
  /\ tx[c].step = "written" => tx[c].kind # "save"
  /\ \A r \in tx[c].takes, e \in Specs \ (Moves(c) \union met \union {tx[c].doc}) :
        shows[e][r] = 0 \/ shows[e][r] >= Latest(tx[c], r)

\* The rest of TypeOK: the columns within the bounds.
Bounded ==
  /\ \A r \in Rules : Version(r) <= MaxVersion
  /\ at \in [Specs -> 1..MaxAt] /\ kept \in [Specs -> Wording]
  /\ ruleTx \in [Rules -> Clients \union {None}]
  /\ approved \in [Rules -> SUBSET (1..MaxVersion)]

HeldBy(c) == RulesHeld(c) /\ CanRise(c) /\ FollowersDraft(c) /\ NoneMissed(c)
HoldInv   == Bounded /\ \A c \in Clients : HeldBy(c)

\* What another transaction's step leaves to o.
LEMMA LeavesHeld ==
  ASSUME RuleInv, NEW o \in Clients, HeldBy(o), SameWork(o), RowTypes',
         tx'[o].bumps = tx[o].bumps, tx'[o].done = tx[o].done,
         \A r \in Rules : ruleTx[r] = o =>
            /\ ruleTx'[r] = o /\ Version(r)' = Version(r) /\ status'[r] = status[r],
         crossed \subseteq crossed', met \subseteq met',
         \A e \in Specs : docTx[e] = o => docTx'[e] = o /\ at'[e] = at[e],
         Moves(o)' \subseteq Moves(o), Moves(o) \subseteq Moves(o)' \union met',
         \A e \in Moves(o) : state'[e] = state[e] \/ e \in met',
         \A e \in Specs \ (Moves(o) \union met' \union {tx[o].doc}), r \in tx[o].takes :
            \/ shows'[e][r] = shows[e][r]
            \/ shows[e][r] # 0 /\ shows'[e][r] >= shows[e][r]
  PROVE  HeldBy(o)'
<1>1. tx[o] \in Txs /\ RowTypes /\ TxInv(o) BY DEF RuleInv, RowTypes
<1>2. /\ tx[o].takes \subseteq Rules /\ tx[o].done \subseteq Specs /\ Changed(tx[o]) \subseteq Rules
      /\ Bumped(tx[o]) \subseteq Changed(tx[o])
  BY <1>1 DEF Txs, Changed, Bumped
<1>3. Changed(tx[o])' = Changed(tx[o]) /\ Bumped(tx[o])' = Bumped(tx[o])
  BY DEF Changed, Bumped, SameWork
<1>4. RulesHeld(o)'
  <2>1. RulesHeld(o) BY DEF HeldBy
  <2>2. ASSUME tx'[o].step \in {"written", "done"}, NEW r \in Changed(tx[o])
        PROVE  /\ ruleTx'[r] = o
               /\ r \in Bumped(tx[o]) => Version(r)' < MaxVersion
               /\ r \notin crossed' =>
                    tx'[o].saw[r] = [status |-> status'[r], version |-> Version(r)']
    <3>1. ruleTx[r] = o BY <2>1, <2>2 DEF RulesHeld, SameWork
    <3>2. ruleTx'[r] = o /\ Version(r)' = Version(r) /\ status'[r] = status[r]
      BY <1>2, <3>1
    <3> QED BY <2>1, <2>2, <3>2 DEF RulesHeld, SameWork
  <2>3. \A r \in tx'[o].takes : ruleTx'[r] = o BY <1>2, <2>1 DEF RulesHeld, SameWork
  <2> QED BY <1>3, <2>2, <2>3 DEF RulesHeld
<1>5. CanRise(o)'
  <2>1. tx[o].kind \in Tables => tx[o].doc \in Specs /\ docTx[tx[o].doc] = o
    BY <1>1 DEF TxInv, DocHeld
  <2> QED BY <1>2, <2>1 DEF HeldBy, CanRise, SameWork
<1>6. FollowersDraft(o)' BY DEF HeldBy, FollowersDraft
<1>7. NoneMissed(o)'
  <2>1. \A r \in tx[o].takes : Latest(tx[o], r)' = Latest(tx[o], r)
    BY <1>2, <1>3 DEF Latest, HeldBy, RulesHeld
  <2>2. ASSUME NEW r \in tx[o].takes,
               NEW e \in Specs \ (Moves(o) \union met' \union {tx[o].doc})
        PROVE  shows'[e][r] = 0 \/ shows'[e][r] >= Latest(tx[o], r)
    <3>1. shows[e][r] \in Nat /\ shows'[e][r] \in Nat /\ Latest(tx[o], r) \in Nat
      BY <1>1, <1>2, VersionTypes DEF RowTypes, Latest
    <3>2. shows[e][r] = 0 \/ shows[e][r] >= Latest(tx[o], r)
      BY DEF HeldBy, NoneMissed
    <3> QED BY <3>1, <3>2
  <2>3. \A r \in tx'[o].takes, e \in Specs \ (Moves(o)' \union met' \union {tx'[o].doc}) :
          shows'[e][r] = 0 \/ shows'[e][r] >= Latest(tx[o], r)'
    BY <2>1, <2>2 DEF SameWork
  <2> QED BY <2>3 DEF HeldBy, NoneMissed, SameWork
<1> QED BY <1>4, <1>5, <1>6, <1>7 DEF HeldBy

\* Steps of c that change no rule, no spec and no acceptance.
LEMMA HoldQuiet ==
  ASSUME RuleInv, RuleInv', HoldInv, NEW c \in Clients,
         UNCHANGED <<ruleVars, specVars, approved, met>>, crossed \subseteq crossed',
         ruleTx' \in [Rules -> Clients \union {None}],
         \A r \in Rules : ruleTx[r] \in Clients \ {c} => ruleTx'[r] = ruleTx[r],
         \A e \in Specs : docTx[e] \in Clients \ {c} => docTx'[e] = docTx[e],
         \A o \in Clients \ {c} :
            /\ SameWork(o) /\ tx'[o].done = tx[o].done /\ tx'[o].bumps = tx[o].bumps
            /\ Moves(o)' = Moves(o),
         HeldBy(c)'
  PROVE  HoldInv'
<1>1. Bounded'
  BY DEF HoldInv, Bounded, Version, ruleVars, specVars
<1>2. ASSUME NEW o \in Clients \ {c} PROVE HeldBy(o)'
  <2>1. HeldBy(o) BY DEF HoldInv
  <2>2. RowTypes' BY DEF RuleInv
  <2>3. \A r \in Rules : Version(r)' = Version(r) /\ status'[r] = status[r]
    BY DEF Version, ruleVars
  <2>4. shows' = shows /\ at' = at /\ state' = state BY DEF specVars
  <2> QED BY <2>1, <2>2, <2>3, <2>4, LeavesHeld
<1> QED BY <1>1, <1>2 DEF HoldInv

\* The same where c's transaction alone moves.
LEMMA HoldOwn ==
  ASSUME RuleInv, RuleInv', HoldInv, NEW c \in Clients, NEW t,
         UNCHANGED <<ruleVars, specVars, approved, met>>, crossed \subseteq crossed',
         ruleTx' \in [Rules -> Clients \union {None}],
         \A r \in Rules : ruleTx[r] \in Clients \ {c} => ruleTx'[r] = ruleTx[r],
         \A e \in Specs : docTx[e] \in Clients => docTx'[e] = docTx[e],
         tx' = [tx EXCEPT ![c] = t], HeldBy(c)'
  PROVE  HoldInv'
<1>1. tx \in [Clients -> Txs] BY DEF RuleInv, RowTypes
<1>2. \A o \in Clients \ {c} : tx'[o] = tx[o] BY <1>1
<1>3. \A o \in Clients \ {c} :
        /\ SameWork(o) /\ tx'[o].done = tx[o].done /\ tx'[o].bumps = tx[o].bumps
        /\ Moves(o)' = Moves(o)
  BY <1>2 DEF SameWork, Moves
<1> QED BY <1>3, HoldQuiet

-----------------------------------------------------------------------------
(* The steps of a transaction *)

\* Nothing is held by a transaction that has ended.
LEMMA IdleHolds == ASSUME NEW c \in Clients, tx[c] = Idle PROVE HeldBy(c)
<1>1. /\ tx[c].step = "idle" /\ tx[c].kind = "none" /\ tx[c].doc = None /\ tx[c].takes = {}
      /\ tx[c].todo = {} /\ tx[c].stuck = {} /\ tx[c].done = {}
  BY DEF Idle
<1>2. Moves(c) = {} BY <1>1 DEF Moves
<1> QED BY <1>1, <1>2 DEF HeldBy, RulesHeld, CanRise, FollowersDraft, NoneMissed

\* One that accepts no rule moves no spec.
LEMMA NoMoves ==
  ASSUME HoldInv, NEW c \in Clients, tx[c].step # "done"
  PROVE  tx[c].takes = {} /\ Moves(c) = {}
BY DEF HoldInv, HeldBy, NoneMissed

LEMMA SyncingHolds ==
  ASSUME RuleInv, RuleInv', HoldInv, NEW c \in Clients, NEW k \in Tables, NEW d \in Specs,
         NEW a \in [Rules -> Nat], NEW says \in Wording,
         docTx[d] = None, at[d] < MaxAt, docTx' = [docTx EXCEPT ![d] = c],
         tx' = [tx EXCEPT ![c] = Syncing(k, d, a, says)],
         UNCHANGED <<ruleVars, specVars, ruleTx, candidate, history>>
  PROVE  HoldInv'
<1> DEFINE t == Syncing(k, d, a, says)
<1>1. RowTypes /\ tx \in [Clients -> Txs] /\ docTx \in [Specs -> Clients \union {None}]
  BY DEF RuleInv, RowTypes
<1>2. /\ t.step = "opened" /\ t.kind = k /\ t.doc = d /\ t.takes = {}
      /\ t.todo = {} /\ t.stuck = {} /\ t.done = {}
  BY <1>1, SyncingTyped
<1> HIDE DEF t
<1>3. tx'[c] = t /\ tx' = [tx EXCEPT ![c] = t] BY <1>1 DEF t
<1>4. Moves(c)' = {} BY <1>2, <1>3 DEF Moves
<1>5. HeldBy(c)'
  BY <1>2, <1>3, <1>4
  DEF HeldBy, RulesHeld, CanRise, FollowersDraft, NoneMissed, specVars
<1>6. \A e \in Specs : docTx[e] \in Clients => docTx'[e] = docTx[e] BY <1>1
<1>7. ruleTx' \in [Rules -> Clients \union {None}] BY DEF HoldInv, Bounded
<1> QED BY <1>3, <1>5, <1>6, <1>7, HoldOwn DEF history

LEMMA SaveHolds ==
  ASSUME RuleInv, RuleInv', HoldInv, NEW c \in Clients, NEW d \in Specs, NEW says \in Wording,
         OpenSave(c, d, says)
  PROVE  HoldInv'
<1>1. shows[d] \in [Rules -> Nat] BY DEF RuleInv, RowTypes
<1>2. /\ docTx[d] = None /\ at[d] < MaxAt /\ docTx' = [docTx EXCEPT ![d] = c]
      /\ tx' = [tx EXCEPT ![c] = Syncing("save", d, shows[d], says)]
      /\ UNCHANGED <<ruleVars, specVars, ruleTx, candidate, history>>
  BY DEF OpenSave
<1> QED BY <1>1, <1>2, SyncingHolds

LEMMA LandHolds ==
  ASSUME RuleInv, RuleInv', HoldInv, NEW c \in Clients, NEW d \in Specs, OpenLand(c, d)
  PROVE  HoldInv'
<1>1. /\ docTx[d] = None /\ at[d] < MaxAt /\ docTx' = [docTx EXCEPT ![d] = c]
      /\ tx' = [tx EXCEPT ![c] = Syncing("land", d, candidate[d].shows, candidate[d].says)]
      /\ candidate[d] # None
      /\ UNCHANGED <<ruleVars, specVars, ruleTx, candidate, history>>
  BY DEF OpenLand
<1>2. candidate[d] \in [shows : [Rules -> Nat], says : Wording]
  BY <1>1 DEF RuleInv, RowTypes
<1>3. candidate[d].shows \in [Rules -> Nat] /\ candidate[d].says \in Wording BY <1>2
<1> QED BY <1>1, <1>3, SyncingHolds

\* reviseRule's UPDATE locks each rule that the text rewrites; whether the rule is
\* still as it was read is recorded in crossed.
LEMMA WriteHolds ==
  ASSUME RuleInv, RuleInv', HoldInv, NEW c \in Clients, Write(c) PROVE HoldInv'
<1> DEFINE s == tx[c]
           t == [s EXCEPT !.step = IF s.kind = "save" THEN "done" ELSE "written",
                          !.new = Rewritten(s)]
<1>1. /\ tx \in [Clients -> Txs] /\ s \in Txs
      /\ ruleTx \in [Rules -> Clients \union {None}]
  BY DEF RuleInv, RowTypes, HoldInv, Bounded
<1>2. /\ s.step = "opened" /\ s.kind \in Tables /\ tx' = [tx EXCEPT ![c] = t] /\ docTx' = docTx
      /\ \A r \in Changed(s) : ruleTx[r] = None
      /\ \A r \in Bumped(s) : Version(r) < MaxVersion
      /\ ruleTx' = [r \in Rules |-> IF r \in Changed(s) THEN c ELSE ruleTx[r]]
      /\ crossed' = crossed \union
           {r \in Changed(s) : s.saw[r] # [status |-> status[r], version |-> Version(r)]}
      /\ UNCHANGED <<ruleVars, specVars, approved, met>>
  BY <1>1 DEF Write
<1>3. /\ t.step = (IF s.kind = "save" THEN "done" ELSE "written")
      /\ t.kind = s.kind /\ t.doc = s.doc /\ t.saw = s.saw /\ t.takes = s.takes
      /\ t.todo = s.todo /\ t.stuck = s.stuck /\ t.done = s.done /\ t.bumps = s.bumps
  BY <1>1 DEF Txs
<1> HIDE DEF t
<1>4. tx'[c] = t BY <1>1, <1>2
<1>5. s.takes = {} /\ Moves(c) = {} BY <1>2, NoMoves
<1>6. Moves(c)' = {} /\ t.takes = {} /\ t.done = {}
  BY <1>3, <1>4, <1>5 DEF Moves
<1>7. Changed(tx[c])' = Changed(s) /\ Bumped(tx[c])' = Bumped(s) /\ Changed(s) \subseteq Rules
      /\ Bumped(s) \subseteq Changed(s)
  BY <1>3, <1>4 DEF Changed, Bumped
<1>8. RulesHeld(c)'
  <2>1. ASSUME NEW r \in Changed(s)
        PROVE  /\ ruleTx'[r] = c
               /\ r \in Bumped(s) => Version(r)' < MaxVersion
               /\ r \notin crossed' =>
                    t.saw[r] = [status |-> status'[r], version |-> Version(r)']
    <3>1. Version(r)' = Version(r) /\ status'[r] = status[r] BY <1>2 DEF Version, ruleVars
    <3> QED BY <1>2, <1>3, <1>7, <3>1
  <2> QED BY <1>4, <1>6, <1>7, <2>1 DEF RulesHeld
<1>9. HeldBy(c)
  BY DEF HoldInv
<1>10. HeldBy(c)'
  <2>1. CanRise(c)' BY <1>2, <1>3, <1>4, <1>6, <1>9 DEF HeldBy, CanRise, specVars
  <2>2. NoneMissed(c)'
    BY <1>2, <1>3, <1>4, <1>6, <1>9 DEF HeldBy, NoneMissed
  <2>3. FollowersDraft(c)' BY <1>6 DEF FollowersDraft
  <2> QED BY <1>8, <2>1, <2>2, <2>3 DEF HeldBy
<1>11. /\ ruleTx' \in [Rules -> Clients \union {None}]
       /\ \A r \in Rules : ruleTx[r] \in Clients \ {c} => ruleTx'[r] = ruleTx[r]
  BY <1>1, <1>2
<1>12. crossed \subseteq crossed' BY <1>2
<1> HIDE DEF s
<1> QED BY <1>2, <1>10, <1>11, <1>12, HoldOwn

LEMMA AcceptHolds ==
  ASSUME RuleInv, RuleInv', HoldInv, NEW c \in Clients, NEW d \in Specs, OpenAccept(c, d)
  PROVE  HoldInv'
<1> DEFINE t == [Idle EXCEPT !.step = "written", !.kind = "accept", !.doc = d]
<1>1. tx \in [Clients -> Txs] /\ docTx \in [Specs -> Clients \union {None}]
  BY DEF RuleInv, RowTypes
<1>2. /\ tx' = [tx EXCEPT ![c] = t] /\ docTx' = [docTx EXCEPT ![d] = c] /\ docTx[d] = None
      /\ UNCHANGED <<ruleVars, specVars, ruleTx, candidate, history>>
  BY DEF OpenAccept
<1>3. /\ t.step = "written" /\ t.kind = "accept" /\ t.doc = d /\ t.saw = Nothing /\ t.takes = {}
      /\ t.todo = {} /\ t.stuck = {} /\ t.done = {}
  BY DEF Idle
<1> HIDE DEF t
<1>4. tx'[c] = t BY <1>1, <1>2
<1>5. Moves(c)' = {} BY <1>3, <1>4 DEF Moves
<1>6. Changed(tx[c])' = {} BY <1>3, <1>4 DEF Changed, Nothing
<1>7. HeldBy(c)'
  BY <1>3, <1>4, <1>5, <1>6 DEF HeldBy, RulesHeld, CanRise, FollowersDraft, NoneMissed
<1>8. \A e \in Specs : docTx[e] \in Clients => docTx'[e] = docTx[e] BY <1>1, <1>2
<1>9. ruleTx' \in [Rules -> Clients \union {None}] BY <1>2 DEF HoldInv, Bounded
<1> QED BY <1>2, <1>7, <1>8, <1>9, HoldOwn DEF history

\* An acceptance locks the rules it accepts, and reads every spec that is behind
\* them with whether it is accepted.
LEMMA AcceptingHolds ==
  ASSUME RuleInv, RuleInv', HoldInv, NEW c \in Clients, NEW s \in Txs, NEW R \in SUBSET Rules,
         Accepting(c, s, R), s.stuck = {}, s.done = {}, s.kind # "save",
         s.doc \in Specs => s.kind \in Tables \union {"accept"},
         s.kind \in Tables => at[s.doc] < MaxAt,
         \A r \in Changed(s) :
            /\ ruleTx[r] = c
            /\ r \in Bumped(s) => Version(r) < MaxVersion
            /\ r \notin crossed => s.saw[r] = [status |-> status[r], version |-> Version(r)]
  PROVE  HoldInv'
<1> DEFINE B == Behind(s, R)
           t == [s EXCEPT !.step = "done", !.takes = R, !.todo = B,
                          !.bumps = {e \in B : state[e] = "accepted"}]
<1>1. /\ tx \in [Clients -> Txs] /\ ruleTx \in [Rules -> Clients \union {None}]
      /\ RowTypes
  BY DEF RuleInv, RowTypes, HoldInv, Bounded
<1>2. /\ tx' = [tx EXCEPT ![c] = t] /\ docTx' = docTx
      /\ \A r \in R : ruleTx[r] \in {None, c}
      /\ ruleTx' = [r \in Rules |-> IF r \in R THEN c ELSE ruleTx[r]]
      /\ UNCHANGED <<ruleVars, specVars, crossed, approved, met>>
  BY DEF Accepting, history
<1>3. B \subseteq Specs /\ s.doc \notin B /\ (R = {} => B = {}) BY DEF Behind
<1>4. \A e \in Specs \ (B \union {s.doc}), r \in R : shows[e][r] = 0 \/ shows[e][r] >= Latest(s, r)
  <2> SUFFICES ASSUME NEW e \in Specs, e \notin B, e # s.doc, NEW r \in R, shows[e][r] # 0
               PROVE  shows[e][r] >= Latest(s, r)
    OBVIOUS
  <2>1. shows[e][r] \in Nat /\ Latest(s, r) \in Nat BY <1>1, VersionTypes DEF RowTypes, Latest
  <2>2. ~(shows[e][r] < Latest(s, r)) BY DEF Behind
  <2> QED BY <2>1, <2>2
<1> HIDE DEF B
<1>5. /\ t.step = "done" /\ t.kind = s.kind /\ t.doc = s.doc /\ t.saw = s.saw /\ t.takes = R
      /\ t.todo = B /\ t.stuck = {} /\ t.done = {} /\ t.bumps = {e \in B : state[e] = "accepted"}
  BY <1>3 DEF Txs
<1> HIDE DEF t
<1>6. tx'[c] = t BY <1>1, <1>2
<1>7. Moves(c)' = B BY <1>5, <1>6 DEF Moves
<1>8. /\ Changed(tx[c])' = Changed(s) /\ Bumped(tx[c])' = Bumped(s) /\ Changed(s) \subseteq Rules
      /\ \A r \in Rules : Latest(tx[c], r)' = Latest(s, r)
      /\ \A r \in Rules : Version(r)' = Version(r) /\ status'[r] = status[r]
  BY <1>2, <1>5, <1>6 DEF Changed, Bumped, Latest, Version, ruleVars
<1>9. RulesHeld(c)' BY <1>2, <1>5, <1>6, <1>8 DEF RulesHeld, Bumped
<1>10. CanRise(c)' BY <1>2, <1>5, <1>6 DEF CanRise, specVars
<1>11. FollowersDraft(c)'
  <2>1. \A e \in B : state[e] \in Statuses BY <1>1, <1>3 DEF RowTypes
  <2>2. \A e \in B \ t.bumps : state[e] = "draft" BY <1>5, <2>1
  <2>3. state' = state BY <1>2 DEF specVars
  <2> QED BY <1>6, <1>7, <2>2, <2>3 DEF FollowersDraft
<1>12. NoneMissed(c)'
  <2>1. shows' = shows BY <1>2 DEF specVars
  <2> QED BY <1>3, <1>4, <1>5, <1>6, <1>7, <1>8, <2>1 DEF NoneMissed
<1>13. HeldBy(c)' BY <1>9, <1>10, <1>11, <1>12 DEF HeldBy
<1>14. /\ ruleTx' \in [Rules -> Clients \union {None}]
       /\ \A r \in Rules : ruleTx[r] \in Clients \ {c} => ruleTx'[r] = ruleTx[r]
  BY <1>1, <1>2
<1> QED BY <1>2, <1>13, <1>14, HoldOwn

LEMMA PublishHolds ==
  ASSUME RuleInv, RuleInv', HoldInv, NEW c \in Clients, AcceptDocRules(c) PROVE HoldInv'
<1> DEFINE s == tx[c]
           R == {r \in Rules : (IF s.kind = "land" THEN s.new ELSE shows[s.doc])[r] # 0
                               /\ IsDraft(s, r)}
<1>1. s \in Txs BY DEF RuleInv, RowTypes
<1>2. s.step = "written" /\ Accepting(c, s, R) BY DEF AcceptDocRules
<1>3. R \in SUBSET Rules OBVIOUS
<1>4. Moves(c) = {} /\ HeldBy(c) BY <1>2, NoMoves DEF HoldInv
<1>5. s.stuck = {} /\ s.done = {} BY <1>4 DEF Moves
<1>6. /\ s.kind # "save" /\ (s.doc \in Specs => s.kind \in Tables \union {"accept"})
      /\ s.kind \in Tables => at[s.doc] < MaxAt
  BY <1>2, <1>4 DEF HeldBy, NoneMissed, CanRise
<1>7. \A r \in Changed(s) :
        /\ ruleTx[r] = c
        /\ r \in Bumped(s) => Version(r) < MaxVersion
        /\ r \notin crossed => s.saw[r] = [status |-> status[r], version |-> Version(r)]
  BY <1>2, <1>4 DEF HeldBy, RulesHeld
<1> HIDE DEF s, R
<1> QED BY <1>1, <1>2, <1>3, <1>5, <1>6, <1>7, AcceptingHolds

LEMMA RuleHolds ==
  ASSUME RuleInv, RuleInv', HoldInv, NEW c \in Clients, NEW r \in Rules, AcceptRule(c, r)
  PROVE  HoldInv'
<1> DEFINE s == [Idle EXCEPT !.kind = "rule"]
<1>1. Accepting(c, s, {r}) /\ {r} \in SUBSET Rules BY DEF AcceptRule
<1>2. /\ s \in Txs /\ s.kind = "rule" /\ s.doc = None /\ s.stuck = {} /\ s.done = {}
      /\ s.saw = Nothing
  BY IdleTyped DEF Txs, Idle
<1> HIDE DEF s
<1>3. Changed(s) = {} BY <1>2 DEF Changed, Nothing
<1> QED BY <1>1, <1>2, <1>3, AcceptingHolds

\* A move is one of those that were to be made, and the docs row that it bumps is the
\* transaction's from then on.
LEMMA MovingHolds ==
  ASSUME RuleInv, RuleInv', HoldInv, NEW c \in Clients, NEW e \in tx[c].todo, NEW t \in Txs,
         tx' = [tx EXCEPT ![c] = t],
         UNCHANGED <<ruleVars, specVars, ruleTx, candidate, history>>,
         \A d \in Specs : docTx[d] \in Clients => docTx'[d] = docTx[d],
         t.step = tx[c].step, t.kind = tx[c].kind, t.doc = tx[c].doc, t.saw = tx[c].saw,
         t.takes = tx[c].takes, t.bumps = tx[c].bumps,
         t.todo \union t.stuck \union t.done = Moves(c),
         t.done \subseteq tx[c].done \union {e},
         e \in t.done \intersect t.bumps => docTx'[e] = c /\ at[e] < MaxAt
  PROVE  HoldInv'
<1>1. /\ tx \in [Clients -> Txs] /\ tx[c] \in Txs /\ HeldBy(c) /\ e \in Specs
  BY DEF RuleInv, RowTypes, HoldInv, Txs
<1>2. tx'[c] = t BY <1>1
<1>3. Moves(c)' = Moves(c) BY <1>2 DEF Moves
<1>4. /\ Changed(tx[c])' = Changed(tx[c]) /\ Bumped(tx[c])' = Bumped(tx[c])
      /\ \A r \in Rules : /\ Latest(tx[c], r)' = Latest(tx[c], r)
                          /\ Version(r)' = Version(r) /\ status'[r] = status[r]
      /\ Changed(tx[c]) \subseteq Rules
  BY <1>2 DEF Changed, Bumped, Latest, Version, ruleVars
<1>5. RulesHeld(c)'
  <2>1. RulesHeld(c) BY <1>1 DEF HeldBy
  <2>2. ruleTx' = ruleTx /\ crossed' = crossed BY DEF history
  <2> QED BY <1>2, <1>4, <2>1, <2>2 DEF RulesHeld
<1>6. CanRise(c)'
  <2>1. CanRise(c) /\ at' = at BY <1>1 DEF HeldBy, specVars
  <2>2. \A d \in tx[c].done : d \in Specs BY <1>1 DEF Txs
  <2>3. \A d \in t.done \intersect t.bumps : docTx'[d] = c /\ at[d] < MaxAt
    BY <2>1, <2>2 DEF CanRise
  <2>4. t.kind \in Tables => at[t.doc] < MaxAt BY <2>1 DEF CanRise
  <2> QED BY <1>2, <2>1, <2>3, <2>4 DEF CanRise
<1>7. FollowersDraft(c)'
  BY <1>1, <1>2, <1>3 DEF HeldBy, FollowersDraft, specVars, history
<1>8. NoneMissed(c)'
  <2>1. NoneMissed(c) /\ shows' = shows /\ met' = met BY <1>1 DEF HeldBy, specVars, history
  <2>2. tx[c].takes \subseteq Rules BY <1>1 DEF Txs
  <2>3. \A r \in t.takes, d \in Specs \ (Moves(c)' \union met' \union {t.doc}) :
          shows'[d][r] = 0 \/ shows'[d][r] >= Latest(tx[c], r)'
    BY <1>3, <1>4, <2>1, <2>2 DEF NoneMissed
  <2> QED BY <1>2, <1>3, <2>1, <2>3 DEF NoneMissed
<1>9. HeldBy(c)' BY <1>5, <1>6, <1>7, <1>8 DEF HeldBy
<1>10. ruleTx' \in [Rules -> Clients \union {None}] BY DEF HoldInv, Bounded
<1> QED BY <1>9, <1>10, HoldOwn DEF history

LEMMA BumpHolds ==
  ASSUME RuleInv, RuleInv', HoldInv, NEW c \in Clients, NEW e \in Specs, MoveBumped(c, e)
  PROVE  HoldInv'
<1> DEFINE t == [tx[c] EXCEPT !.todo = @ \ {e}, !.done = @ \union {e}]
<1>1. tx \in [Clients -> Txs] /\ tx[c] \in Txs /\ docTx \in [Specs -> Clients \union {None}]
  BY DEF RuleInv, RowTypes
<1>2. /\ tx' = [tx EXCEPT ![c] = t] /\ docTx' = [docTx EXCEPT ![e] = c] /\ docTx[e] = None
      /\ at[e] < MaxAt /\ e \in tx[c].todo
      /\ UNCHANGED <<ruleVars, specVars, ruleTx, candidate, history>>
  BY <1>1 DEF MoveBumped
<1>3. /\ t \in Txs /\ t.done = tx[c].done \union {e}
      /\ t.step = tx[c].step /\ t.kind = tx[c].kind /\ t.doc = tx[c].doc /\ t.saw = tx[c].saw
      /\ t.takes = tx[c].takes /\ t.bumps = tx[c].bumps
      /\ t.todo = tx[c].todo \ {e} /\ t.stuck = tx[c].stuck
  BY <1>1 DEF Txs
<1> HIDE DEF t
<1>4. t.todo \union t.stuck \union t.done = Moves(c) BY <1>2, <1>3 DEF Moves
<1>5. /\ \A d \in Specs : docTx[d] \in Clients => docTx'[d] = docTx[d]
      /\ docTx'[e] = c
  BY <1>1, <1>2
<1> QED BY <1>2, <1>3, <1>4, <1>5, MovingHolds

LEMMA DraftHolds ==
  ASSUME RuleInv, RuleInv', HoldInv, NEW c \in Clients, NEW e \in Specs, MoveDraft(c, e)
  PROVE  HoldInv'
<1> DEFINE u == [tx[c] EXCEPT !.todo = @ \ {e}, !.stuck = @ \union {e}]
           v == [tx[c] EXCEPT !.todo = @ \ {e}, !.done = @ \union {e}]
<1>1. tx \in [Clients -> Txs] /\ tx[c] \in Txs BY DEF RuleInv, RowTypes
<1>2. PICK t \in {u, v} : tx' = [tx EXCEPT ![c] = t]
  BY DEF MoveDraft
<1>3. /\ e \in tx[c].todo /\ e \notin tx[c].bumps
      /\ UNCHANGED <<ruleVars, specVars, ruleTx, docTx, candidate, history>>
  BY DEF MoveDraft, locks
<1>4. /\ u \in Txs /\ u.done = tx[c].done
      /\ u.step = tx[c].step /\ u.kind = tx[c].kind /\ u.doc = tx[c].doc /\ u.saw = tx[c].saw
      /\ u.takes = tx[c].takes /\ u.bumps = tx[c].bumps
      /\ u.todo = tx[c].todo \ {e} /\ u.stuck = tx[c].stuck \union {e}
  BY <1>1 DEF Txs
<1>5. /\ v \in Txs /\ v.done = tx[c].done \union {e}
      /\ v.step = tx[c].step /\ v.kind = tx[c].kind /\ v.doc = tx[c].doc /\ v.saw = tx[c].saw
      /\ v.takes = tx[c].takes /\ v.bumps = tx[c].bumps
      /\ v.todo = tx[c].todo \ {e} /\ v.stuck = tx[c].stuck
  BY <1>1 DEF Txs
<1> HIDE DEF u, v
<1>6. /\ t \in Txs /\ t.done \subseteq tx[c].done \union {e}
      /\ t.step = tx[c].step /\ t.kind = tx[c].kind /\ t.doc = tx[c].doc /\ t.saw = tx[c].saw
      /\ t.takes = tx[c].takes /\ t.bumps = tx[c].bumps
      /\ t.todo \union t.stuck \union t.done = Moves(c)
  <2>1. CASE t = u BY <1>3, <1>4, <2>1 DEF Moves
  <2>2. CASE t = v BY <1>3, <1>5, <2>2 DEF Moves
  <2> QED BY <2>1, <2>2
<1> QED BY <1>2, <1>3, <1>6, MovingHolds

\* What c's end makes of another's transaction.
LEMMA Wakes ==
  ASSUME RuleInv, NEW c \in Clients, NEW d, NEW next, tx' = Others(c, d, next),
         NEW o \in Clients \ {c}
  PROVE  tx'[o] = IF d \in tx[o].stuck THEN next[o] ELSE tx[o]
BY DEF Others

LEMMA AbortHolds ==
  ASSUME RuleInv, RuleInv', HoldInv, NEW c \in Clients, Abort(c) PROVE HoldInv'
<1> DEFINE d == tx[c].doc
           n == [o \in Clients |->
                  [tx[o] EXCEPT !.stuck = @ \ {d}, !.todo = @ \union {d}]]
<1>1. /\ tx \in [Clients -> Txs] /\ docTx \in [Specs -> Clients \union {None}]
      /\ ruleTx \in [Rules -> Clients \union {None}]
  BY DEF RuleInv, RowTypes, HoldInv, Bounded
<1>2. /\ tx' = Others(c, d, n)
      /\ ruleTx' = [r \in Rules |-> IF ruleTx[r] = c THEN None ELSE ruleTx[r]]
      /\ docTx' = [e \in Specs |-> IF docTx[e] = c THEN None ELSE docTx[e]]
      /\ UNCHANGED <<ruleVars, specVars, candidate, history>>
  BY DEF Abort, Release
<1>3. ASSUME NEW o \in Clients \ {c}
      PROVE  /\ SameWork(o) /\ tx'[o].done = tx[o].done /\ tx'[o].bumps = tx[o].bumps
             /\ Moves(o)' = Moves(o)
  <2>1. tx[o] \in Txs BY <1>1
  <2>2. CASE d \notin tx[o].stuck
    <3>1. tx'[o] = tx[o] BY <1>2, <2>2, Wakes
    <3> QED BY <3>1 DEF SameWork, Moves
  <2>3. CASE d \in tx[o].stuck
    <3> DEFINE x == [tx[o] EXCEPT !.stuck = @ \ {d}, !.todo = @ \union {d}]
    <3>1. n[o] = x OBVIOUS
    <3> HIDE DEF n, d
    <3>2. tx'[o] = n[o] BY <1>2, <2>3, Wakes
    <3>3. /\ x.step = tx[o].step /\ x.kind = tx[o].kind /\ x.doc = tx[o].doc /\ x.saw = tx[o].saw
          /\ x.says = tx[o].says /\ x.new = tx[o].new /\ x.takes = tx[o].takes
          /\ x.done = tx[o].done /\ x.bumps = tx[o].bumps
          /\ x.stuck = tx[o].stuck \ {d} /\ x.todo = tx[o].todo \union {d}
      BY <2>1 DEF Txs
    <3> HIDE DEF x
    <3>4. SameWork(o) BY <3>1, <3>2, <3>3 DEF SameWork
    <3>5. Moves(o)' = Moves(o) BY <2>3, <3>1, <3>2, <3>3 DEF Moves
    <3> QED BY <3>1, <3>2, <3>3, <3>4, <3>5
  <2> QED BY <2>2, <2>3
<1>4. tx'[c] = Idle BY <1>2 DEF Others
<1>5. HeldBy(c)'
  <2>1. /\ tx'[c].step = "idle" /\ tx'[c].kind = "none" /\ tx'[c].doc = None
        /\ tx'[c].takes = {} /\ tx'[c].todo = {} /\ tx'[c].stuck = {} /\ tx'[c].done = {}
    BY <1>4 DEF Idle
  <2>2. Moves(c)' = {} BY <2>1 DEF Moves
  <2> QED BY <2>1, <2>2 DEF HeldBy, RulesHeld, CanRise, FollowersDraft, NoneMissed
<1>6. /\ ruleTx' \in [Rules -> Clients \union {None}]
      /\ \A r \in Rules : ruleTx[r] \in Clients \ {c} => ruleTx'[r] = ruleTx[r]
      /\ \A e \in Specs : docTx[e] \in Clients \ {c} => docTx'[e] = docTx[e]
  BY <1>1, <1>2
<1> HIDE DEF n, d
<1> QED BY <1>2, <1>3, <1>5, <1>6, HoldQuiet DEF history

\* EditRule takes the row of a rule that no transaction holds.
LEMMA EditHolds ==
  ASSUME RuleInv, RuleInv', HoldInv, NEW r \in Rules, NEW says \in Texts, EditRule(r, says)
  PROVE  HoldInv'
<1>1. RowTypes /\ RowTypes' /\ Bounded BY DEF RuleInv, HoldInv
<1>2. /\ ruleTx[r] = None /\ UNCHANGED <<specVars, locks, candidate, tx, history>>
      /\ IF status[r] = "draft" THEN text' = [text EXCEPT ![r][Version(r)] = says]
         ELSE Version(r) < MaxVersion /\ text' = [text EXCEPT ![r] = Append(@, says)]
      /\ status' = [status EXCEPT ![r] = "draft"]
  BY DEF EditRule
<1>3. /\ text \in [Rules -> Seq(Texts)] /\ text[r] \in Seq(Texts) /\ status \in [Rules -> Statuses]
      /\ Version(r) \in Nat
  BY <1>1, VersionTypes DEF RowTypes
<1>4. Version(r)' = IF status[r] = "draft" THEN Version(r) ELSE Version(r) + 1
  <2>1. CASE status[r] = "draft"
    <3> DEFINE z == [text[r] EXCEPT ![Version(r)] = says]
    <3>1. text' = [text EXCEPT ![r] = z] BY <1>2, <2>1
    <3>2. Len(z) = Len(text[r]) BY <1>3, InPlace
    <3> HIDE DEF z
    <3> QED BY <1>3, <2>1, <3>1, <3>2 DEF Version
  <2>2. CASE status[r] # "draft"
    <3>1. text' = [text EXCEPT ![r] = Append(text[r], says)] BY <1>2, <2>2
    <3> QED BY <1>3, <2>2, <3>1, OneLonger DEF Version
  <2> QED BY <2>1, <2>2
<1>5. \A q \in Rules \ {r} : text'[q] = text[q] /\ status'[q] = status[q]
  BY <1>2, <1>3
<1>6. Bounded'
  <2>1. \A q \in Rules : Version(q) \in Nat /\ Version(q) <= MaxVersion
    BY <1>1, VersionTypes DEF Bounded
  <2>2. \A q \in Rules : Version(q)' <= MaxVersion
    BY <1>2, <1>4, <1>5, <2>1, BoundsAssumption DEF Version
  <2> QED BY <1>1, <1>2, <2>2 DEF Bounded, specVars, locks, history
<1>7. ASSUME NEW o \in Clients PROVE HeldBy(o)'
  <2>1. HeldBy(o) BY DEF HoldInv
  <2>2. /\ shows' = shows /\ state' = state /\ at' = at /\ ruleTx' = ruleTx /\ docTx' = docTx
        /\ crossed' = crossed /\ met' = met /\ tx' = tx
    BY <1>2 DEF specVars, locks, history
  <2>3. SameWork(o) /\ Moves(o)' = Moves(o) BY <2>2 DEF SameWork, Moves
  <2>4. \A q \in Rules : ruleTx[q] = o =>
          ruleTx'[q] = o /\ Version(q)' = Version(q) /\ status'[q] = status[q]
    BY <1>2, <1>5, <2>2 DEF Version
  <2> QED BY <1>1, <2>1, <2>2, <2>3, <2>4, LeavesHeld
<1> QED BY <1>6, <1>7 DEF HoldInv

\* What c commits to others' specs: a rule or a docs row that another transaction
\* holds stays as it is, and a spec that another moves is met by c.
LEMMA CommitLeaves ==
  ASSUME RuleInv, HoldInv, NEW c \in Clients, NEW o \in Clients \ {c}, Commit(c)
  PROVE  /\ tx'[o].bumps = tx[o].bumps
         /\ \A r \in Rules : ruleTx[r] = o =>
              ruleTx'[r] = o /\ Version(r)' = Version(r) /\ status'[r] = status[r]
         /\ \A e \in Specs : docTx[e] = o => docTx'[e] = o /\ at'[e] = at[e]
         /\ Moves(o)' \subseteq Moves(o) /\ Moves(o) \subseteq Moves(o)' \union met'
         /\ \A e \in Moves(o) : state'[e] = state[e] \/ e \in met'
<1> DEFINE t == tx[c]
           n == [p \in Clients |-> [tx[p] EXCEPT !.stuck = @ \ {t.doc}]]
<1>1. /\ RowTypes /\ tx \in [Clients -> Txs] /\ t \in Txs /\ tx[o] \in Txs
      /\ ruleTx \in [Rules -> Clients \union {None}] /\ DocHeld(c) /\ HeldBy(c) /\ HeldBy(o)
  BY DEF RuleInv, RowTypes, HoldInv, Bounded, TxInv
<1>2. /\ t.step = "done" /\ tx' = Others(c, t.doc, n)
      /\ ruleTx' = [r \in Rules |-> IF ruleTx[r] = c THEN None ELSE ruleTx[r]]
      /\ docTx' = [d \in Specs |-> IF docTx[d] = c THEN None ELSE docTx[d]]
      /\ at' = [d \in Specs |-> IF d \in Rises(t) THEN at[d] + 1 ELSE at[d]]
      /\ \A d \in Specs : state'[d] = IF t.kind = "accept" /\ d = t.doc THEN "accepted" ELSE state[d]
      /\ status' = [r \in Rules |-> IF r \in t.takes THEN "accepted"
                                    ELSE IF r \in Bumped(t) THEN "draft" ELSE status[r]]
  BY DEF Commit, Release
<1>3. tx[o].takes # {} /\ t.doc \in Specs => t.doc \in met' BY DEF Commit
<1>4. Moves(o) # {} => tx[o].takes # {} BY <1>1 DEF HeldBy, NoneMissed
<1>5. ASSUME NEW r \in Rules, ruleTx[r] = o
      PROVE  ruleTx'[r] = o /\ Version(r)' = Version(r) /\ status'[r] = status[r]
  <2>1. r \notin Changed(t) /\ r \notin t.takes
    BY <1>1, <1>2, <1>5 DEF HeldBy, RulesHeld
  <2>2. r \notin Bumped(t) BY <2>1 DEF Bumped
  <2>3. Version(r)' = Version(r) BY <2>2, CommitRules DEF Latest
  <2> QED BY <1>2, <1>5, <2>1, <2>2, <2>3
<1>6. ASSUME NEW e \in Specs, docTx[e] = o PROVE docTx'[e] = o /\ at'[e] = at[e]
  <2>1. e \notin Rises(t)
    BY <1>1, <1>6 DEF Rises, DocHeld, HeldBy, CanRise
  <2> QED BY <1>2, <1>6, <2>1
<1>7. /\ tx'[o].bumps = tx[o].bumps /\ tx'[o].done = tx[o].done /\ tx'[o].todo = tx[o].todo
      /\ tx'[o].stuck = tx[o].stuck \ {t.doc}
  <2>1. CASE t.doc \notin tx[o].stuck
    <3>1. tx'[o] = tx[o] BY <1>2, <2>1, Wakes
    <3> QED BY <2>1, <3>1
  <2>2. CASE t.doc \in tx[o].stuck
    <3> DEFINE x == [tx[o] EXCEPT !.stuck = @ \ {t.doc}]
    <3>1. n[o] = x OBVIOUS
    <3> HIDE DEF n
    <3>2. tx'[o] = n[o] BY <1>2, <2>2, Wakes
    <3>3. /\ x.bumps = tx[o].bumps /\ x.done = tx[o].done /\ x.todo = tx[o].todo
          /\ x.stuck = tx[o].stuck \ {t.doc}
      BY <1>1 DEF Txs
    <3> HIDE DEF x
    <3> QED BY <3>1, <3>2, <3>3
  <2> QED BY <2>1, <2>2
<1> HIDE DEF t, n
<1>8. Moves(o)' \subseteq Moves(o) BY <1>7 DEF Moves
<1>9. Moves(o) \subseteq Specs BY <1>1 DEF Moves, Txs
<1>10. Moves(o) \subseteq Moves(o)' \union met'
  BY <1>3, <1>4, <1>7, <1>9 DEF Moves
<1>11. \A e \in Moves(o) : state'[e] = state[e] \/ e \in met'
  BY <1>2, <1>3, <1>4, <1>9
<1> QED BY <1>5, <1>6, <1>7, <1>8, <1>10, <1>11

\* The bounds, which the guards of Write, EditRule, the openings and the bumps keep.
LEMMA CommitBounded ==
  ASSUME RuleInv, HoldInv, NEW c \in Clients, Commit(c) PROVE Bounded'
<1> DEFINE t == tx[c]
<1>1. /\ RowTypes /\ InRange /\ t \in Txs /\ Bounded /\ HeldBy(c) /\ DocHeld(c)
  BY DEF RuleInv, RowTypes, HoldInv, TxInv
<1>2. /\ t.step = "done"
      /\ ruleTx' = [r \in Rules |-> IF ruleTx[r] = c THEN None ELSE ruleTx[r]]
      /\ at' = [d \in Specs |-> IF d \in Rises(t) THEN at[d] + 1 ELSE at[d]]
      /\ kept' = [d \in Specs |-> IF d \in Rises(t) THEN Shown(d) ELSE kept[d]]
      /\ approved' = [r \in Rules |-> IF r \in t.takes THEN approved[r] \union {Latest(t, r)}
                                      ELSE approved[r]]
  BY DEF Commit, Release
<1>3. ASSUME NEW r \in Rules PROVE Latest(t, r) \in 1..MaxVersion
  <2>1. Version(r) \in Nat \ {0} /\ Version(r) <= MaxVersion
    BY <1>1, VersionTypes DEF Bounded
  <2>2. r \in Bumped(t) => Version(r) < MaxVersion
    BY <1>1, <1>2 DEF HeldBy, RulesHeld, Bumped
  <2> QED BY <2>1, <2>2, BoundsAssumption DEF Latest
<1>4. \A r \in Rules : Version(r)' <= MaxVersion
  <2> TAKE r \in Rules
  <2>1. Version(r)' = Latest(t, r) BY CommitRules
  <2> QED BY <1>3, <2>1
<1>5. \A d \in Specs : d \in Rises(t) => at[d] < MaxAt
  BY <1>1 DEF Rises, HeldBy, CanRise
<1>6. at' \in [Specs -> 1..MaxAt] BY <1>1, <1>2, <1>5, BoundsAssumption DEF Bounded
<1>7. kept' \in [Specs -> Wording]
  <2>1. \A d \in Specs : Shown(d) \in Wording BY <1>1, ShownTyped
  <2>2. kept \in [Specs -> Wording] BY <1>1 DEF Bounded
  <2> QED BY <1>2, <2>1, <2>2
<1>8. approved' \in [Rules -> SUBSET (1..MaxVersion)] BY <1>1, <1>2, <1>3 DEF Bounded
<1>9. ruleTx' \in [Rules -> Clients \union {None}] BY <1>1, <1>2 DEF Bounded
<1> QED BY <1>4, <1>6, <1>7, <1>8, <1>9 DEF Bounded

LEMMA CommitHolds ==
  ASSUME RuleInv, RuleInv', HoldInv, NEW c \in Clients, Commit(c) PROVE HoldInv'
<1> DEFINE t == tx[c]
           n == [p \in Clients |-> [tx[p] EXCEPT !.stuck = @ \ {t.doc}]]
<1>1. /\ RowTypes /\ RowTypes' /\ tx \in [Clients -> Txs] /\ t \in Txs
  BY DEF RuleInv, RowTypes
<1>2. tx' = Others(c, t.doc, n) /\ Release(c) BY DEF Commit
<1>3. \A o \in Clients : Woken(n[o], tx[o])
  <2> TAKE o \in Clients
  <2> DEFINE s == tx[o]  x == [s EXCEPT !.stuck = @ \ {t.doc}]
  <2>1. s \in Txs /\ n[o] = x BY <1>1
  <2> HIDE DEF s, n
  <2>2. x \in Txs BY <2>1 DEF Txs
  <2>3. /\ x.step = s.step /\ x.kind = s.kind /\ x.doc = s.doc /\ x.saw = s.saw
        /\ x.says = s.says /\ x.new = s.new /\ x.takes = s.takes /\ x.done = s.done
    BY <2>1 DEF Txs
  <2> QED BY <2>1, <2>2, <2>3 DEF Woken, s
<1> HIDE DEF n
<1>4. /\ tx'[c] = Idle
      /\ \A o \in Clients \ {c} : SameWork(o) /\ tx'[o].done = tx[o].done
  BY <1>2, <1>3, Ended
<1>5. HeldBy(c)'
  <2>1. /\ tx'[c].step = "idle" /\ tx'[c].kind = "none" /\ tx'[c].doc = None
        /\ tx'[c].takes = {} /\ tx'[c].todo = {} /\ tx'[c].stuck = {} /\ tx'[c].done = {}
    BY <1>4 DEF Idle
  <2>2. Moves(c)' = {} BY <2>1 DEF Moves
  <2> QED BY <2>1, <2>2 DEF HeldBy, RulesHeld, CanRise, FollowersDraft, NoneMissed
<1>6. ASSUME NEW o \in Clients \ {c} PROVE HeldBy(o)'
  <2>1. HeldBy(o) /\ tx[o] \in Txs BY <1>1 DEF HoldInv
  <2>2. crossed \subseteq crossed' /\ met \subseteq met' BY DEF Commit
  <2>3. \A e \in Specs \ (Moves(o) \union met' \union {tx[o].doc}), r \in tx[o].takes :
          \/ shows'[e][r] = shows[e][r]
          \/ shows[e][r] # 0 /\ shows'[e][r] >= shows[e][r]
    <3> SUFFICES ASSUME NEW e \in Specs, e \notin met', NEW r \in tx[o].takes
                 PROVE  \/ shows'[e][r] = shows[e][r]
                        \/ shows[e][r] # 0 /\ shows'[e][r] >= shows[e][r]
      OBVIOUS
    <3>1. r \in Rules BY <2>1 DEF Txs
    <3>2. e # t.doc BY DEF Commit
    <3>3. \/ shows'[e][r] = shows[e][r]
          \/ shows[e][r] # 0 /\ shows'[e][r] = Max2(shows[e][r], Latest(t, r))
      BY <3>1, <3>2, CommitShows
    <3>4. shows[e][r] \in Nat /\ Latest(t, r) \in Nat
      BY <1>1, <3>1, VersionTypes DEF RowTypes, Latest
    <3> QED BY <3>3, <3>4 DEF Max2
  <2>4. /\ tx'[o].bumps = tx[o].bumps
        /\ \A r \in Rules : ruleTx[r] = o =>
             ruleTx'[r] = o /\ Version(r)' = Version(r) /\ status'[r] = status[r]
        /\ \A e \in Specs : docTx[e] = o => docTx'[e] = o /\ at'[e] = at[e]
        /\ Moves(o)' \subseteq Moves(o) /\ Moves(o) \subseteq Moves(o)' \union met'
        /\ \A e \in Moves(o) : state'[e] = state[e] \/ e \in met'
    BY CommitLeaves
  <2>5. SameWork(o) /\ tx'[o].done = tx[o].done BY <1>4
  <2> QED BY <1>1, <2>1, <2>2, <2>3, <2>4, <2>5, LeavesHeld
<1> QED BY <1>5, <1>6, CommitBounded DEF HoldInv

-----------------------------------------------------------------------------

LEMMA HoldInit == Init => HoldInv
<1> SUFFICES ASSUME Init PROVE HoldInv
  OBVIOUS
<1>1. \A c \in Clients : HeldBy(c) BY IdleHolds DEF Init
<1>2. \A r \in Rules : Version(r) <= MaxVersion
  <2> TAKE r \in Rules
  <2>1. PICK w \in Texts : text[r] = <<w>> BY DEF Init
  <2> QED BY <2>1, BoundsAssumption DEF Version
<1>3. at \in [Specs -> 1..MaxAt] BY BoundsAssumption DEF Init
<1>4. kept \in [Specs -> Wording] BY DEF Init, Wording, Nothing
<1>5. /\ ruleTx \in [Rules -> Clients \union {None}]
      /\ approved \in [Rules -> SUBSET (1..MaxVersion)]
  BY DEF Init
<1> QED BY <1>1, <1>2, <1>3, <1>4, <1>5 DEF HoldInv, Bounded

LEMMA HoldStep == RuleInv /\ RuleInv' /\ HoldInv /\ [Next]_vars => HoldInv'
<1> SUFFICES ASSUME RuleInv, RuleInv', HoldInv, [Next]_vars PROVE HoldInv'
  OBVIOUS
<1>1. CASE Edit
  <2>1. CASE \E c \in Clients, d \in Specs, says \in Wording : OpenSave(c, d, says)
    BY <2>1, SaveHolds
  <2>2. CASE \E c \in Clients, d \in Specs : OpenLand(c, d) BY <2>2, LandHolds
  <2>3. CASE \E c \in Clients : Write(c) BY <2>3, WriteHolds
  <2>4. CASE \E r \in Rules, says \in Texts : EditRule(r, says) BY <2>4, EditHolds
  <2> QED BY <1>1, <2>1, <2>2, <2>3, <2>4 DEF Edit
<1>2. ASSUME UNCHANGED <<ruleVars, specVars, locks, tx, history>> PROVE HoldInv'
  <2>1. ASSUME NEW c \in Clients PROVE HeldBy(c)'
    <3>1. HeldBy(c) BY DEF HoldInv
    <3> QED BY <1>2, <3>1
        DEF HeldBy, RulesHeld, CanRise, FollowersDraft, NoneMissed, Moves, Changed, Bumped,
            Latest, Version, ruleVars, specVars, locks, history
  <2>2. Bounded'
    BY <1>2 DEF HoldInv, Bounded, Version, ruleVars, specVars, locks, history
  <2> QED BY <2>1, <2>2 DEF HoldInv
<1>3. CASE Revise
  BY <1>2, <1>3 DEF Revise, ReviseDoc, UpdateRevision, DiscardRevision
<1>4. CASE Accept
  BY <1>4, AcceptHolds, PublishHolds, RuleHolds, BumpHolds, DraftHolds DEF Accept
<1>5. CASE \E c \in Clients : Commit(c) BY <1>5, CommitHolds
<1>6. CASE \E c \in Clients : Abort(c) BY <1>6, AbortHolds
<1>7. CASE UNCHANGED vars BY <1>2, <1>7 DEF vars
<1> QED BY <1>1, <1>3, <1>4, <1>5, <1>6, <1>7 DEF Next

LEMMA HoldInvariance == Spec => [](RuleInv /\ HoldInv)
BY RuleInit, RuleStep, HoldInit, HoldStep, PTL DEF Spec

\* The rows and the transactions keep their shapes, within the bounds, and a spec
\* shows versions that exist.
THEOREM RuleTextTypes == Spec => []TypeOK
<1>1. RuleInv /\ HoldInv => TypeOK
  <2> SUFFICES ASSUME RuleInv, HoldInv PROVE TypeOK
    OBVIOUS
  <2>1. RowTypes /\ InRange /\ Bounded BY DEF RuleInv, HoldInv
  <2>2. ASSUME NEW r \in Rules
        PROVE  text[r] \in UNION {[1..n -> Texts] : n \in 1..MaxVersion}
    <3>1. text[r] \in Seq(Texts) BY <2>1 DEF RowTypes
    <3>2. Len(text[r]) \in 1..MaxVersion
      BY <2>1, VersionTypes, BoundsAssumption DEF Bounded, Version
    <3>3. text[r] \in [1..Len(text[r]) -> Texts] BY <3>1
    <3> QED BY <3>2, <3>3
  <2>3. text \in [Rules -> UNION {[1..n -> Texts] : n \in 1..MaxVersion}]
    BY <2>1, <2>2 DEF RowTypes
  <2>4. \A r \in Rules : Version(r) \in Nat /\ Version(r) <= MaxVersion
    BY <2>1, VersionTypes DEF Bounded
  <2>5. shows \in [Specs -> Arrangement]
    <3>1. ASSUME NEW d \in Specs PROVE shows[d] \in Arrangement
      <4>1. shows[d] \in [Rules -> Nat] BY <2>1 DEF RowTypes
      <4>2. \A r \in Rules : shows[d][r] \in 0..MaxVersion
        BY <2>1, <2>4, <4>1, BoundsAssumption DEF InRange
      <4> QED BY <4>1, <4>2 DEF Arrangement
    <3> QED BY <2>1, <3>1 DEF RowTypes
  <2>6. candidate \in [Specs -> [shows : Arrangement, says : Wording] \union {None}]
    <3>1. ASSUME NEW d \in Specs, candidate[d] # None
          PROVE  candidate[d] \in [shows : Arrangement, says : Wording]
      <4>1. candidate[d] \in [shows : [Rules -> Nat], says : Wording]
        BY <2>1, <3>1 DEF RowTypes
      <4>2. \A r \in Rules : candidate[d].shows[r] \in 0..MaxVersion
        BY <2>1, <2>4, <3>1, <4>1, BoundsAssumption DEF InRange
      <4>3. candidate[d].shows \in Arrangement BY <4>1, <4>2 DEF Arrangement
      <4> QED BY <4>1, <4>3
    <3> QED BY <2>1, <3>1 DEF RowTypes
  <2> QED BY <2>1, <2>3, <2>5, <2>6 DEF TypeOK, RowTypes, Bounded, InRange
<1> QED BY <1>1, HoldInvariance, PTL

\* The texts of rules change in an edit or a commit only, what was approved in a commit.
LEMMA TextStep ==
  ASSUME [Next]_vars, text' # text
  PROVE  \/ \E r \in Rules, says \in Texts : EditRule(r, says)
         \/ \E c \in Clients : Commit(c)
BY DEF Next, Edit, Revise, Accept, OpenSave, OpenLand, Write, ReviseDoc, UpdateRevision,
       DiscardRevision, OpenAccept, AcceptDocRules, AcceptRule, Accepting, MoveBumped,
       MoveDraft, Abort, ruleVars, vars

LEMMA ApprovedStep ==
  ASSUME [Next]_vars, approved' # approved PROVE \E c \in Clients : Commit(c)
BY DEF Next, Edit, Revise, Accept, OpenSave, OpenLand, Write, EditRule, ReviseDoc,
       UpdateRevision, DiscardRevision, OpenAccept, AcceptDocRules, AcceptRule, Accepting,
       MoveBumped, MoveDraft, Abort, history, vars

\* The same versions with the same texts read the same.
LEMMA SameReading ==
  ASSUME NEW d \in Specs, shows'[d] = shows[d],
         \A r \in Rules : shows[d][r] # 0 => text'[r][shows[d][r]] = text[r][shows[d][r]]
  PROVE  Shown(d)' = Shown(d)
BY DEF Shown, Reads

\* An edit rewrites a draft, at a version that no accepted spec shows.
LEMMA EditStands ==
  ASSUME RuleInv, NEW q \in Rules, NEW says \in Texts, EditRule(q, says),
         NEW d \in Specs, state[d] = "accepted"
  PROVE  Shown(d)' = Shown(d)
<1>1. shows'[d] = shows[d] BY DEF EditRule, specVars
<1>2. ASSUME NEW r \in Rules, shows[d][r] # 0
      PROVE  text'[r][shows[d][r]] = text[r][shows[d][r]]
  <2>1. /\ text \in [Rules -> Seq(Texts)] /\ text[r] \in Seq(Texts) /\ shows[d][r] \in Nat
        /\ RowTypes
    BY DEF RuleInv, RowTypes
  <2>2. shows[d][r] <= Fixed(r) BY DEF RuleInv, InRange
  <2>3. Version(r) \in Nat \ {0} /\ Fixed(r) \in Nat BY <2>1, VersionTypes
  <2>4. CASE r # q \/ status[r] = "draft"
    <3>1. r = q => shows[d][r] # Version(q) BY <2>1, <2>2, <2>3, <2>4 DEF Fixed
    <3>2. CASE r # q
      <4>1. text'[r] = text[r] BY <2>1, <3>2 DEF EditRule
      <4> QED BY <4>1
    <3>3. CASE r = q
      <4>1. text' = [text EXCEPT ![q] = [text[q] EXCEPT ![Version(q)] = says]]
        BY <2>4, <3>3 DEF EditRule
      <4>2. text'[r] = [text[r] EXCEPT ![Version(q)] = says] BY <2>1, <3>3, <4>1
      <4>3. shows[d][r] \in DOMAIN text[r]
        BY <1>2, <2>1, <2>2, <2>3 DEF Fixed, Version
      <4> QED BY <3>1, <3>3, <4>2, <4>3
    <3> QED BY <3>2, <3>3
  <2>5. CASE r = q /\ status[r] # "draft"
    <3>1. text' = [text EXCEPT ![q] = Append(text[q], says)] BY <2>5 DEF EditRule
    <3>2. text'[r] = Append(text[r], says) BY <2>1, <2>5, <3>1
    <3>3. shows[d][r] \in 1..Len(text[r])
      BY <1>2, <2>1, <2>2, <2>3 DEF Fixed, Version
    <3> QED BY <2>1, <3>2, <3>3
  <2> QED BY <2>4, <2>5
<1> QED BY <1>1, <1>2, SameReading

\* A commit rewrites in place the draft that it has read, if that is still the draft
\* when it has the rule; it adds a version otherwise.
LEMMA CommitStands ==
  ASSUME RuleInv, HoldInv, NEW c \in Clients, Commit(c), NEW d \in Specs \ met',
         state[d] = "accepted", d \notin Rises(tx[c]),
         \A r \in Rules \intersect crossed' : shows[d][r] = 0
  PROVE  Shown(d)' = Shown(d)
<1> DEFINE t == tx[c]
<1>1. RowTypes /\ InRange /\ t \in Txs /\ t.step = "done" /\ HeldBy(c)
  BY DEF RuleInv, RowTypes, HoldInv, Commit
<1>2. shows'[d] = shows[d]
  <2>1. ~(d = t.doc /\ t.kind \in Tables) BY DEF Rises
  <2>2. d \notin t.done
    <3> SUFFICES ASSUME d \in t.done PROVE FALSE
      OBVIOUS
    <3>1. d \in Moves(c) \ t.bumps BY DEF Moves, Rises
    <3>2. d \notin met BY DEF Commit
    <3> QED BY <1>1, <3>1, <3>2 DEF HeldBy, FollowersDraft
  <2> QED BY <2>1, <2>2, CommitShows
<1>3. ASSUME NEW r \in Rules, shows[d][r] # 0
      PROVE  text'[r][shows[d][r]] = text[r][shows[d][r]]
  <2>1. text[r] \in Seq(Texts) /\ shows[d][r] \in Nat /\ shows[d][r] <= Fixed(r)
    BY <1>1 DEF RowTypes, InRange
  <2>2. Version(r) \in Nat \ {0} /\ Fixed(r) \in Nat /\ Fixed(r) <= Version(r)
    BY <1>1, VersionTypes
  <2>3. shows[d][r] \in 1..Len(text[r]) BY <1>3, <2>1, <2>2 DEF Version
  <2>4. text'[r] = IF r \in Bumped(t) THEN Append(text[r], t.says[r])
                   ELSE IF r \in Changed(t) THEN [text[r] EXCEPT ![t.saw[r].version] = t.says[r]]
                   ELSE text[r]
    BY DEF Commit
  <2>5. CASE r \in Bumped(t) BY <2>1, <2>3, <2>4, <2>5
  <2>6. CASE r \in Changed(t) \ Bumped(t)
    <3>1. r \notin crossed BY <1>3 DEF Commit
    <3>2. t.saw[r] = [status |-> status[r], version |-> Version(r)]
      BY <1>1, <2>6, <3>1 DEF HeldBy, RulesHeld
    <3>3. t.saw[r].status = "draft" BY <2>6 DEF Bumped
    <3>4. status[r] = "draft" /\ t.saw[r].version = Version(r) BY <3>2, <3>3
    <3>5. shows[d][r] # t.saw[r].version BY <2>1, <2>2, <3>4 DEF Fixed
    <3>6. text'[r] = [text[r] EXCEPT ![t.saw[r].version] = t.says[r]] BY <2>4, <2>6
    <3>7. shows[d][r] \in DOMAIN text[r] BY <2>1, <2>3
    <3> QED BY <3>5, <3>6, <3>7
  <2>7. CASE r \notin Changed(t) /\ r \notin Bumped(t) BY <2>4, <2>7
  <2> QED BY <2>5, <2>6, <2>7
<1> QED BY <1>2, <1>3, SameReading

\* What an accepted spec says changes only with its version, and doc_versions then
\* keeps what it said (versions.go:72-80), except where a save and an acceptance
\* met, or a rule was rewritten on a reading that no longer held.
THEOREM AcceptedTextStands == Spec => PublishedStands
<1>1. ASSUME RuleInv, HoldInv, [Next]_vars, NEW d \in Specs \ met', state[d] = "accepted",
             Shown(d)' # Shown(d), \A r \in crossed' : shows[d][r] = 0
      PROVE  at'[d] = at[d] + 1 /\ kept'[d] = Shown(d)
  <2>1. text' # text \/ shows' # shows
    <3> SUFFICES ASSUME text' = text, shows' = shows PROVE FALSE
      OBVIOUS
    <3> QED BY <1>1, SameReading
  <2>2. \/ \E r \in Rules, says \in Texts : EditRule(r, says)
        \/ \E c \in Clients : Commit(c)
    BY <1>1, <2>1, TextStep, ShowsStep
  <2>3. PICK c \in Clients : Commit(c) BY <1>1, <2>2, EditStands
  <2>4. d \in Rises(tx[c]) BY <1>1, <2>3, CommitStands
  <2> QED BY <1>1, <2>3, <2>4 DEF Commit
<1>2. RuleInv /\ HoldInv /\ [Next]_vars =>
        [\A d \in Specs \ met' :
           (state[d] = "accepted" /\ Shown(d)' # Shown(d)
             /\ \A r \in crossed' : shows[d][r] = 0)
           => at'[d] = at[d] + 1 /\ kept'[d] = Shown(d)]_vars
  BY <1>1
<1> QED BY <1>2, HoldInvariance, PTL DEF Spec, PublishedStands

\* The commit that accepts a rule leaves every other spec that arranges it at the
\* accepted version or past it (versions.go:72-80), whatever other transactions did
\* between the reading of the specs that are behind and the commit, except where a
\* save met the acceptance.
THEOREM AcceptanceReachesSpecs == Spec => AcceptanceReaches
<1>1. ASSUME RuleInv, HoldInv, [Next]_vars, NEW r \in Rules, NEW d \in Specs \ met',
             approved'[r] # approved[r], shows'[d][r] # 0,
             \A c \in Clients : tx[c].doc = d => tx[c].kind \notin {"accept", "land"}
      PROVE  shows'[d][r] >= Len(text'[r])
  <2>1. PICK c \in Clients : Commit(c) BY <1>1, ApprovedStep
  <2> DEFINE t == tx[c]
  <2>2. /\ t \in Txs /\ t.step = "done" /\ t.todo = {} /\ t.stuck = {} /\ NoneMissed(c)
        /\ r \in t.takes /\ met \subseteq met' /\ RowTypes
    BY <1>1, <2>1 DEF Commit, RuleInv, RowTypes, HoldInv, HeldBy
  <2>3. Len(text'[r]) = Latest(t, r) BY <1>1, <2>1, CommitRules DEF Version
  <2>4. d # t.doc BY <1>1, <2>2 DEF NoneMissed
  <2>5. shows[d][r] \in Nat /\ Latest(t, r) \in Nat
    BY <2>2, VersionTypes DEF RowTypes, Latest
  <2>6. shows'[d] = IF d \in t.done THEN Moved(t, d) ELSE shows[d]
    BY <2>1, <2>4 DEF Commit
  <2>7. CASE d \in t.done
    <3>1. shows'[d][r] = IF shows[d][r] # 0 THEN Max2(shows[d][r], Latest(t, r))
                         ELSE shows[d][r]
      BY <2>2, <2>6, <2>7 DEF Moved
    <3> QED BY <1>1, <2>3, <2>5, <3>1 DEF Max2
  <2>8. CASE d \notin t.done
    <3>1. d \notin Moves(c) /\ d \notin met BY <2>2, <2>8 DEF Moves
    <3>2. shows[d][r] = 0 \/ shows[d][r] >= Latest(t, r)
      BY <2>2, <2>4, <3>1 DEF NoneMissed
    <3> QED BY <1>1, <2>3, <2>6, <2>8, <3>2
  <2> QED BY <2>7, <2>8
<1>2. RuleInv /\ HoldInv /\ [Next]_vars =>
        [\A r \in Rules, d \in Specs \ met' :
           (approved'[r] # approved[r] /\ shows'[d][r] # 0
             /\ \A c \in Clients : tx[c].doc = d => tx[c].kind \notin {"accept", "land"})
           => shows'[d][r] >= Len(text'[r])]_vars
  BY <1>1
<1> QED BY <1>2, HoldInvariance, PTL DEF Spec, AcceptanceReaches

-----------------------------------------------------------------------------
(* The lock on a body that people edit *)

\* The open transaction that has the lock row is the taking tab's, and it
\* found the row free or its own person's.
RowOfTaker ==
  \A t \in Tabs :
    tab[t] = "taking" => rowTx = t /\ row \in {Absent, Person[t]} /\ taken < MaxTakes

\* A drop that has found its row empty still does.
DoomedEmpty ==
  /\ \A e \in doomed : job[e] = "looked"
  /\ raced \/ \A e \in doomed : live \subseteq ending[e]

\* A save holds the subject's row and has read the text that is stored, unless
\* a rule of it has moved since; once checked, what it read is the text its tab
\* loaded.
SaveReads ==
  /\ \A t \in Tabs : tab[t] \in {"saving", "writing"}
       => bodyTx = t /\ (seen[t] = body \/ (Rendered /\ t \in slipped))
  /\ \A t \in Tabs : tab[t] = "writing" => seen[t] = base[t]

LockInv == LockTypeOK /\ RowOfTaker /\ DoomedEmpty /\ HeldByOne /\ SaveReads

LEMMA LockInvInit == LockInit => LockInv
<1> SUFFICES ASSUME LockInit PROVE LockInv
  OBVIOUS
<1>1. taken = 0 /\ live = {} /\ due = {} /\ row = Absent /\ rowTx = Absent
      /\ doomed = {} /\ raced = FALSE
  BY DEF LockInit
<1>2. LockTypeOK
  <2>1. \A s \in 1..taken : tabOf[s] \in Tabs
    BY <1>1
  <2>2. tabOf \in [Session -> Tabs \union {Absent}]
    BY DEF LockInit
  <2>3. faults \in 0..MaxFaults /\ taken \in 0..MaxTakes
    BY TakesAssumption DEF LockInit
  <2>4. job \in [Enders -> {"none", "ended", "looked"}]
        /\ ending \in [Enders -> SUBSET Session]
    BY DEF LockInit
  <2>5. tab \in [Tabs -> {"away", "taking", "editing", "saving", "writing"}]
        /\ mine \in [Tabs -> Session \union {0}]
    BY DEF LockInit
  <2>6. base \in [Tabs -> Bodies \union {Absent}] /\ seen \in [Tabs -> Bodies \union {Absent}]
        /\ body \in Bodies /\ bodyTx \in Tabs \union {Absent} /\ slipped \subseteq Tabs
    BY DEF LockInit
  <2> QED BY <1>1, <2>1, <2>2, <2>3, <2>4, <2>5, <2>6 DEF LockTypeOK
<1>3. \A t \in Tabs : tab[t] = "away"
  BY DEF LockInit
<1>4. RowOfTaker /\ SaveReads
  BY <1>3 DEF RowOfTaker, SaveReads
<1>5. DoomedEmpty /\ HeldByOne
  BY <1>1 DEF DoomedEmpty, HeldByOne
<1> QED BY <1>2, <1>4, <1>5 DEF LockInv

-----------------------------------------------------------------------------
(* One lemma per operation *)

LEMMA TakeRowKeeps ==
  ASSUME LockInv, NEW t \in Tabs, TakeRow(t)
  PROVE  LockInv'
<1> USE DEF LockInv
<1>1. LockTypeOK'
  BY DEF LockTypeOK, TakeRow, lockVars, enderVars, tabVars, bodyVars
<1>2. RowOfTaker'
  BY PeopleAssumption DEF LockTypeOK, RowOfTaker, TakeRow
<1>3. SaveReads'
  BY DEF LockTypeOK, SaveReads, TakeRow, bodyVars
<1>4. DoomedEmpty' /\ HeldByOne'
  BY DEF TakeRow, enderVars, DoomedEmpty, HeldByOne
<1> QED BY <1>1, <1>2, <1>3, <1>4

LEMMA TakeSessionKeeps ==
  ASSUME LockInv, NEW t \in Tabs, TakeSession(t)
  PROVE  LockInv'
<1> USE DEF LockInv
<1> DEFINE n == taken + 1
<1>1. rowTx = t /\ row \in {Absent, Person[t]} /\ \A u \in Tabs \ {t} : tab[u] # "taking"
  BY DEF RowOfTaker, TakeSession
<1>n. taken \in Nat /\ n \in Session
      /\ 1..n = (1..taken) \union {n} /\ 1..n \subseteq Session
  BY TakesAssumption DEF LockTypeOK, RowOfTaker, TakeSession, Session
<1>2. LockTypeOK'
  <2>1. row' \in People \union {Absent} /\ rowTx' \in Tabs \union {Absent}
    BY PeopleAssumption DEF TakeSession, People
  <2>2. taken' \in 0..MaxTakes /\ live' \subseteq 1..taken' /\ due' \subseteq live'
    BY <1>n, TakesAssumption DEF LockTypeOK, TakeSession, Session
  <2>3. tabOf' \in [Session -> Tabs \union {Absent}]
    BY DEF LockTypeOK, TakeSession
  <2>4. \A s \in 1..taken' : tabOf'[s] \in Tabs
    BY <1>n DEF LockTypeOK, TakeSession
  <2>5. tab' \in [Tabs -> {"away", "taking", "editing", "saving", "writing"}]
        /\ mine' \in [Tabs -> Session \union {0}]
        /\ base' \in [Tabs -> Bodies \union {Absent}]
    BY <1>n DEF LockTypeOK, TakeSession
  <2>6. faults' \in 0..MaxFaults /\ raced' \in BOOLEAN
    BY TakesAssumption DEF LockTypeOK, TakeSession, Fault
  <2> QED BY <2>1, <2>2, <2>3, <2>4, <2>5, <2>6 DEF LockTypeOK, TakeSession, enderVars, bodyVars
<1>3. RowOfTaker'
  BY <1>1 DEF LockTypeOK, RowOfTaker, TakeSession
<1>4. SaveReads'
  BY DEF LockTypeOK, SaveReads, TakeSession, bodyVars
<1>5. DoomedEmpty'
  BY DEF TakeSession, enderVars, DoomedEmpty
<1>6. HeldByOne'
  <2> SUFFICES ASSUME ~raced', NEW s \in live' PROVE row' = Person[tabOf'[s]]
    BY DEF HeldByOne
  <2>1. ~raced /\ row' = Person[t]
    BY DEF TakeSession
  <2>2. CASE s = n
    BY <1>n, <2>1, <2>2 DEF TakeSession, LockTypeOK
  <2>3. CASE s \in live
    <3>1. row = Person[tabOf[s]]
      BY <2>1, <2>3 DEF HeldByOne
    <3>2. s \in 1..taken /\ tabOf[s] \in Tabs
      BY <2>3 DEF LockTypeOK
    <3>3. tabOf'[s] = tabOf[s]
      BY <3>2 DEF TakeSession, LockTypeOK, Session
    <3>4. row # Absent
      BY <3>1, <3>2, PeopleAssumption DEF People
    <3> QED BY <1>1, <2>1, <3>1, <3>3, <3>4
  <2> QED BY <2>2, <2>3 DEF TakeSession
<1> QED BY <1>2, <1>3, <1>4, <1>5, <1>6

LEMMA TakeAbortsKeeps ==
  ASSUME LockInv, NEW t \in Tabs, TakeAborts(t)
  PROVE  LockInv'
<1> USE DEF LockInv
<1>1. LockTypeOK'
  BY TakesAssumption DEF LockTypeOK, TakeAborts, enderVars, bodyVars, Fault
<1>2. RowOfTaker'
  BY PeopleAssumption DEF LockTypeOK, RowOfTaker, TakeAborts
<1>3. SaveReads'
  BY DEF LockTypeOK, SaveReads, TakeAborts, bodyVars
<1>4. DoomedEmpty' /\ HeldByOne'
  BY DEF TakeAborts, enderVars, DoomedEmpty, HeldByOne
<1> QED BY <1>1, <1>2, <1>3, <1>4

\* A step that leaves sessions, lock row and enders alone, and no tab taking
\* that was not.
LEMMA LockUntouched ==
  ASSUME LockInv, LockTypeOK', SaveReads',
         UNCHANGED <<lockVars, live, enderVars, raced>>,
         \A t \in Tabs : tab'[t] = "taking" => tab[t] = "taking"
  PROVE  LockInv'
<1> USE DEF LockInv
<1>1. RowOfTaker'
  BY DEF RowOfTaker, lockVars
<1>2. DoomedEmpty' /\ HeldByOne'
  BY DEF lockVars, enderVars, DoomedEmpty, HeldByOne
<1> QED BY <1>1, <1>2

LEMMA PageKeeps ==
  ASSUME LockInv,
         \/ \E t \in Tabs : CheckInLock(t) \/ Leave(t) \/ Load(t)
         \/ \E s \in Session : TimePasses(s)
  PROVE  LockInv'
<1> USE DEF LockInv
<1>1. ASSUME NEW t \in Tabs, CheckInLock(t) PROVE LockInv'
  <2>1. LockTypeOK' /\ SaveReads'
    BY <1>1 DEF LockTypeOK, SaveReads, CheckInLock, lockVars, enderVars, tabVars, bodyVars
  <2> QED BY <1>1, <2>1, LockUntouched DEF CheckInLock, tabVars
<1>2. ASSUME NEW t \in Tabs, Leave(t) PROVE LockInv'
  <2>1. LockTypeOK' /\ SaveReads'
    BY <1>2 DEF LockTypeOK, SaveReads, Leave, lockVars, enderVars, bodyVars
  <2>2. \A u \in Tabs : tab'[u] = "taking" => tab[u] = "taking"
    BY <1>2 DEF LockTypeOK, Leave
  <2> QED BY <1>2, <2>1, <2>2, LockUntouched DEF Leave
<1>3. ASSUME NEW t \in Tabs, Load(t) PROVE LockInv'
  <2>1. LockTypeOK' /\ SaveReads'
    BY <1>3 DEF LockTypeOK, SaveReads, Load, lockVars, enderVars, bodyVars
  <2> QED BY <1>3, <2>1, LockUntouched DEF Load
<1>4. ASSUME NEW s \in Session, TimePasses(s) PROVE LockInv'
  <2>1. LockTypeOK' /\ SaveReads'
    BY <1>4 DEF LockTypeOK, SaveReads, TimePasses, lockVars, enderVars, tabVars, bodyVars
  <2> QED BY <1>4, <2>1, LockUntouched DEF TimePasses, tabVars
<1> QED BY <1>1, <1>2, <1>3, <1>4

LEMMA EndKeeps ==
  ASSUME LockInv, NEW e \in Enders, NEW ss \in SUBSET Session, End(e, ss)
  PROVE  LockInv'
<1> USE DEF LockInv
<1>1. LockTypeOK'
  BY DEF LockTypeOK, End, lockVars, tabVars, bodyVars
<1>2. RowOfTaker' /\ SaveReads' /\ HeldByOne'
  BY DEF RowOfTaker, SaveReads, HeldByOne, End, lockVars, tabVars, bodyVars
<1>3. DoomedEmpty'
  BY DEF LockTypeOK, DoomedEmpty, End
<1> QED BY <1>1, <1>2, <1>3

LEMMA DropLookKeeps ==
  ASSUME LockInv, NEW e \in Enders, DropLook(e)
  PROVE  LockInv'
<1> USE DEF LockInv
<1>1. LockTypeOK'
  BY DEF LockTypeOK, DropLook, lockVars, tabVars, bodyVars
<1>2. RowOfTaker' /\ SaveReads' /\ HeldByOne'
  BY DEF RowOfTaker, SaveReads, HeldByOne, DropLook, lockVars, tabVars, bodyVars
<1>3. DoomedEmpty'
  BY DEF LockTypeOK, DoomedEmpty, DropLook
<1> QED BY <1>1, <1>2, <1>3

LEMMA EndCommitKeeps ==
  ASSUME LockInv, NEW e \in Enders, EndCommit(e)
  PROVE  LockInv'
<1> USE DEF LockInv
<1>1. LockTypeOK'
  BY DEF LockTypeOK, EndCommit, tabVars, bodyVars
<1>2. RowOfTaker'
  <2>1. CASE e \in doomed
    BY <2>1, PeopleAssumption DEF RowOfTaker, EndCommit, tabVars
  <2>2. CASE e \notin doomed
    BY <2>2 DEF RowOfTaker, EndCommit, tabVars
  <2> QED BY <2>1, <2>2
<1>3. SaveReads'
  BY DEF SaveReads, EndCommit, tabVars, bodyVars
<1>4. DoomedEmpty'
  <2>1. CASE e \in doomed
    BY <2>1 DEF DoomedEmpty, EndCommit
  <2>2. CASE e \notin doomed
    BY <2>2 DEF LockTypeOK, DoomedEmpty, EndCommit
  <2> QED BY <2>1, <2>2
<1>5. HeldByOne'
  <2>1. CASE e \in doomed
    BY <2>1 DEF DoomedEmpty, HeldByOne, EndCommit
  <2>2. CASE e \notin doomed
    BY <2>2 DEF HeldByOne, EndCommit
  <2> QED BY <2>1, <2>2
<1> QED BY <1>1, <1>2, <1>3, <1>4, <1>5

LEMMA EndAbortsKeeps ==
  ASSUME LockInv, NEW e \in Enders, EndAborts(e)
  PROVE  LockInv'
<1> USE DEF LockInv
<1>1. LockTypeOK'
  BY TakesAssumption DEF LockTypeOK, EndAborts, lockVars, tabVars, bodyVars, Fault
<1>2. RowOfTaker' /\ SaveReads' /\ HeldByOne'
  BY DEF RowOfTaker, SaveReads, HeldByOne, EndAborts, lockVars, tabVars, bodyVars
<1>3. DoomedEmpty'
  BY DEF LockTypeOK, DoomedEmpty, EndAborts
<1> QED BY <1>1, <1>2, <1>3

LEMMA SaveKeeps ==
  ASSUME LockInv, NEW t \in Tabs, LockedBody(t) \/ Saves(t)
  PROVE  LockInv'
<1> USE DEF LockInv
<1>1. ASSUME LockedBody(t) PROVE LockInv'
  <2>0. LockTypeOK'
    BY <1>1 DEF LockTypeOK, LockedBody, lockVars, enderVars
  <2>1. SaveReads'
    BY <1>1, PeopleAssumption DEF LockTypeOK, SaveReads, LockedBody
  <2>2. \A u \in Tabs : tab'[u] = "taking" => tab[u] = "taking"
    BY <1>1 DEF LockTypeOK, LockedBody
  <2> QED BY <1>1, <2>0, <2>1, <2>2, LockUntouched DEF LockedBody
<1>2. ASSUME SaveChecked(t) PROVE LockInv'
  <2>1. LockTypeOK'
    BY <1>2 DEF LockTypeOK, SaveChecked, SaveEnds, lockVars, enderVars
  <2>2. SaveReads'
    BY <1>2 DEF LockTypeOK, SaveReads, SaveChecked, SaveEnds
  <2>3. \A u \in Tabs : tab'[u] = "taking" => tab[u] = "taking"
    BY <1>2 DEF LockTypeOK, SaveChecked
  <2> QED BY <1>2, <2>1, <2>2, <2>3, LockUntouched DEF SaveChecked
<1>3. ASSUME NEW x \in Bodies, SaveBody(t, x) PROVE LockInv'
  <2>0. SavedText(t, x) \subseteq Bodies
    BY DEF SavedText
  <2>1. LockTypeOK'
    BY <1>3, <2>0, TakesAssumption DEF LockTypeOK, SaveBody, SaveEnds, Fault, lockVars, enderVars
  <2>2. SaveReads'
    BY <1>3, PeopleAssumption DEF LockTypeOK, SaveReads, SaveBody, SaveEnds
  <2>3. \A u \in Tabs : tab'[u] = "taking" => tab[u] = "taking"
    BY <1>3 DEF LockTypeOK, SaveBody
  <2> QED BY <1>3, <2>1, <2>2, <2>3, LockUntouched DEF SaveBody
<1>4. ASSUME SaveAborts(t) PROVE LockInv'
  <2>1. LockTypeOK'
    BY <1>4, TakesAssumption DEF LockTypeOK, SaveAborts, SaveEnds, Fault, lockVars, enderVars
  <2>2. SaveReads'
    BY <1>4, PeopleAssumption DEF LockTypeOK, SaveReads, SaveAborts, SaveEnds
  <2>3. \A u \in Tabs : tab'[u] = "taking" => tab[u] = "taking"
    BY <1>4 DEF LockTypeOK, SaveAborts
  <2> QED BY <1>4, <2>1, <2>2, <2>3, LockUntouched DEF SaveAborts
<1> QED BY <1>1, <1>2, <1>3, <1>4 DEF Saves

LEMMA AgentWritesKeeps ==
  ASSUME LockInv, NEW x \in Bodies, AgentWrites(x)
  PROVE  LockInv'
<1> USE DEF LockInv
<1>1. LockTypeOK'
  BY DEF LockTypeOK, AgentWrites, lockVars, enderVars, tabVars
<1>2. SaveReads'
  BY PeopleAssumption DEF SaveReads, AgentWrites, tabVars
<1> QED BY <1>1, <1>2, LockUntouched DEF AgentWrites, tabVars

LEMMA RuleWritesKeeps ==
  ASSUME LockInv, NEW x \in Bodies, RuleWrites(x)
  PROVE  LockInv'
<1> USE DEF LockInv
<1>1. LockTypeOK'
  BY DEF LockTypeOK, RuleWrites, lockVars, enderVars, tabVars
<1>2. SaveReads'
  BY DEF SaveReads, RuleWrites, tabVars
<1> QED BY <1>1, <1>2, LockUntouched DEF RuleWrites, tabVars

-----------------------------------------------------------------------------
(* The theorems *)

LEMMA LockInvStep == LockInv /\ [LockNext]_bodyLockVars => LockInv'
<1> SUFFICES ASSUME LockInv, [LockNext]_bodyLockVars PROVE LockInv'
  OBVIOUS
<1>1. ASSUME NEW t \in Tabs, Tab(t) PROVE LockInv'
  BY <1>1, TakeRowKeeps, TakeSessionKeeps, TakeAbortsKeeps, PageKeeps, SaveKeeps
     DEF Tab, TakeEnds
<1>2. ASSUME NEW e \in Servers, Server(e) PROVE LockInv'
  <2>1. live \subseteq Session /\ e \in Enders
    BY TakesAssumption DEF LockInv, LockTypeOK, Session, Enders
  <2> QED BY <1>2, <2>1, EndKeeps DEF Server, UnlockBody, ReleaseLockSession
<1>3. CASE SweepLocks
  <2>1. due \subseteq Session /\ Sweeper \in Enders
    BY TakesAssumption DEF LockInv, LockTypeOK, Session, Enders
  <2> QED BY <1>3, <2>1, EndKeeps DEF SweepLocks
<1>4. ASSUME NEW e \in Enders, Ends(e) PROVE LockInv'
  BY <1>4, DropLookKeeps, EndCommitKeeps, EndAbortsKeeps DEF Ends
<1>5. ASSUME NEW s \in Session, TimePasses(s) PROVE LockInv'
  BY <1>5, PageKeeps
<1>6. ASSUME NEW x \in Bodies, AgentWrites(x) \/ RuleWrites(x) PROVE LockInv'
  BY <1>6, AgentWritesKeeps, RuleWritesKeeps
<1>7. CASE UNCHANGED bodyLockVars
  BY <1>7 DEF bodyLockVars, lockVars, enderVars, tabVars, bodyVars,
     LockInv, LockTypeOK, RowOfTaker, DoomedEmpty, HeldByOne, SaveReads
<1> QED BY <1>1, <1>2, <1>3, <1>4, <1>5, <1>6, <1>7 DEF LockNext

LEMMA LockInvariance == LockSpec => []LockInv
BY LockInvInit, LockInvStep, PTL DEF LockSpec

\* The lock's tables, the tabs and the servers keep their types, for every
\* set of tabs, people, servers and texts (body_locks, body_lock_sessions).
THEOREM LockTyping == LockSpec => []LockTypeOK
BY LockInvariance, PTL DEF LockInv

\* Every live session is under a row that names its person, until a session
\* commits between a drop's NOT EXISTS and its DELETE (TakeLock, endSessions,
\* SweepLocks).
THEOREM OnePersonHolds == LockSpec => []HeldByOne
BY LockInvariance, PTL DEF LockInv

\* A save replaces the text its tab loaded, or what a rule made of it inside
\* the save's own transaction, and no other (CheckBodySave under the subject's
\* row lock, EditRule and moveSpecsToAcceptedRules without it).
THEOREM SavesOverwriteWhatWasRead == LockSpec => NoSilentOverwrite
<1>1. LockInv => \A t \in Tabs :
        tab[t] = "writing" => base[t] = body \/ (Rendered /\ t \in slipped)
  BY DEF LockInv, SaveReads
<1>2. LockInv /\ [LockNext]_bodyLockVars
      => [\A t \in Tabs :
            tab[t] = "writing" /\ body' # body
            => base[t] = body \/ (Rendered /\ t \in slipped)]_bodyLockVars
  BY <1>1
<1> QED BY <1>2, LockInvariance, PTL DEF LockSpec, NoSilentOverwrite
=============================================================================
