------------------------------ MODULE RuleText ------------------------------
(***************************************************************************)
(* Specs and the rules they share: internal/store/rules.go, versions.go,   *)
(* rulestandalone.go, docs.go and docrevisions.go.                         *)
(*                                                                         *)
(* A spec's text is an arrangement of rules at versions (doc_rules).  A    *)
(* save of a draft spec, and the landing of an accepted spec's candidate   *)
(* revision, write the text back into the rules (syncRules); an edit of a  *)
(* rule writes it directly.  Accepting a rule, or a spec that arranges it, *)
(* moves the other specs to the accepted version.  The transactions are    *)
(* READ COMMITTED: they lock the docs or the rules row they start from,    *)
(* read the other rows as committed, and wait for a row that an open       *)
(* transaction has written.  What a transaction has written takes effect   *)
(* in Commit.  The reads a save starts with are one step, and the rules it *)
(* writes are another.                                                     *)
(***************************************************************************)
EXTENDS Naturals, Sequences, FiniteSets

CONSTANTS
  Specs, Rules, Clients,
  Texts,       \* what a rule may say
  MaxVersion,  \* bound: versions of a rule
  MaxAt,       \* bound: versions of a spec
  None

ASSUME BoundsAssumption == MaxVersion \in Nat \ {0} /\ MaxAt \in Nat \ {0}
ASSUME NoneAssumption == None \notin Texts \union Clients \union Specs

Arrangement == [Rules -> 0..MaxVersion]        \* 0: not arranged
Wording     == [Rules -> Texts \union {None}]  \* None: no such section
Nothing     == [r \in Rules |-> None]
Unarranged  == [r \in Rules |-> 0]

VARIABLES
  text,       \* text[r]: rule_versions, oldest first
  status,     \* status[r]: of the newest version
  ruleTx,     \* ruleTx[r]: the client whose transaction holds the rules row
  state,      \* state[d]: the spec's status
  at,         \* at[d]: docs.version
  shows,      \* shows[d]: doc_rules
  docTx,      \* docTx[d]: the client whose transaction holds the docs row
  candidate,  \* candidate[d]: the open revision, or None
  kept,       \* kept[d]: the text of the version last put in doc_versions
  tx,         \* tx[c]: the client's transaction
  approved,   \* history: approved[r], the versions that were accepted
  crossed,    \* history: rules written on a reading that no longer held
  met         \* history: specs that a save and an acceptance had open at once

ruleVars == <<text, status>>
specVars == <<state, at, shows, kept>>
locks    == <<ruleTx, docTx>>
history  == <<approved, crossed, met>>
vars == <<ruleVars, specVars, locks, candidate, tx, history>>

Version(r) == Len(text[r])
Newest(r)  == IF status[r] = "draft" /\ Version(r) > 1 THEN Version(r) - 1 ELSE Version(r)
Max2(m, n) == IF m < n THEN n ELSE m

\* The text of an arrangement (arrangedTexts, renderBody).
Reads(a) == [r \in Rules |-> IF a[r] = 0 THEN None ELSE text[r][a[r]]]
Shown(d) == Reads(shows[d])

Idle == [step |-> "idle", kind |-> "none", doc |-> None, says |-> Nothing,
         saw |-> Nothing, new |-> Unarranged, takes |-> {}, bumps |-> {},
         todo |-> {}, stuck |-> {}, done |-> {}]

\* The transaction that has deleted d's doc_rules rows, if any.
Rearranging(d, c) == tx[c].doc = d /\ tx[c].kind \in {"save", "land"}
Moving(d) == \E c \in Clients : d \in tx[c].done

-----------------------------------------------------------------------------
(* Edits: syncRules and reviseRule *)

\* What a section's text is compared with: the version that was arranged,
\* else, for a rule the heading names, the one ArrangeRule would show.
Base(a, says) ==
  [r \in Rules |-> IF says[r] = None THEN 0 ELSE IF a[r] # 0 THEN a[r] ELSE Newest(r)]

\* A transaction that will write says over the arrangement a, with what
\* reviseRule's plain SELECT reads of the rules whose text changed.
Syncing(kind, d, a, says) ==
  [Idle EXCEPT !.step = "opened", !.kind = kind, !.doc = d, !.says = says,
               !.new = Base(a, says),
               !.saw = [r \in Rules |->
                 IF says[r] # None /\ says[r] # text[r][Base(a, says)[r]]
                 THEN [status |-> status[r], version |-> Version(r)] ELSE None]]

Changed(t) == {r \in Rules : t.saw[r] # None}
Bumped(t)  == {r \in Changed(t) : t.saw[r].status # "draft"}

\* UpdateDocBody: only a draft; its own text back writes nothing.
OpenSave(c, d, says) ==
  /\ tx[c] = Idle /\ docTx[d] = None /\ ~Moving(d)
  /\ state[d] = "draft" /\ says # Shown(d) /\ at[d] < MaxAt
  /\ docTx' = [docTx EXCEPT ![d] = c]
  /\ tx' = [tx EXCEPT ![c] = Syncing("save", d, shows[d], says)]
  /\ UNCHANGED <<ruleVars, specVars, ruleTx, candidate, history>>

\* AcceptRevision, up to the landing of the candidate's text.
OpenLand(c, d) ==
  /\ tx[c] = Idle /\ docTx[d] = None /\ ~Moving(d)
  /\ state[d] = "accepted" /\ candidate[d] # None /\ at[d] < MaxAt
  /\ docTx' = [docTx EXCEPT ![d] = c]
  /\ tx' = [tx EXCEPT ![c] = Syncing("land", d, candidate[d].shows, candidate[d].says)]
  /\ UNCHANGED <<ruleVars, specVars, ruleTx, candidate, history>>

\* Every change a version on.
RewrittenNext(t) ==
  [r \in Rules |->
    IF r \in Changed(t) THEN t.saw[r].version + 1
    ELSE IF t.new[r] = 0 THEN 0 ELSE Max2(t.new[r], Newest(r))]

\* Unchanged rules where the text that was edited had them.
RewrittenKeeping(t) ==
  [r \in Rules |->
    IF r \in Bumped(t) THEN Version(r) + 1
    ELSE IF r \in Changed(t) THEN t.saw[r].version
    ELSE t.new[r]]

\* A draft that was read is rewritten in place, at the version read; an
\* accepted version is followed by the next.  Rules left unchanged move to
\* the newest accepted version.
Rewritten(t) ==
  [r \in Rules |->
    IF r \in Bumped(t) THEN Version(r) + 1
    ELSE IF r \in Changed(t) THEN t.saw[r].version
    ELSE IF t.new[r] = 0 THEN 0 ELSE Max2(t.new[r], Newest(r))]

Write(c) ==
  LET t == tx[c] IN
  /\ t.step = "opened" /\ t.kind \in {"save", "land"}
  /\ \A r \in Changed(t) : ruleTx[r] = None
  /\ \A r \in Bumped(t) : Version(r) < MaxVersion
  /\ ruleTx' = [r \in Rules |-> IF r \in Changed(t) THEN c ELSE ruleTx[r]]
  /\ crossed' = crossed \union
       {r \in Changed(t) : t.saw[r] # [status |-> status[r], version |-> Version(r)]}
  /\ tx' = [tx EXCEPT ![c].step = IF t.kind = "save" THEN "done" ELSE "written",
                      ![c].new = Rewritten(t)]
  /\ UNCHANGED <<ruleVars, specVars, docTx, candidate, approved, met>>

\* EditRule holds the rules row from its first statement.
EditRule(r, says) ==
  /\ ruleTx[r] = None /\ says # text[r][Version(r)]
  /\ IF status[r] = "draft"
     THEN text' = [text EXCEPT ![r][Version(r)] = says]
     ELSE /\ Version(r) < MaxVersion
          /\ text' = [text EXCEPT ![r] = Append(@, says)]
  /\ status' = [status EXCEPT ![r] = "draft"]
  /\ UNCHANGED <<specVars, locks, candidate, tx, history>>

-----------------------------------------------------------------------------
(* Candidate revisions *)

ReviseDoc(d) ==
  /\ docTx[d] = None /\ state[d] = "accepted" /\ candidate[d] = None
  /\ candidate' = [candidate EXCEPT ![d] = [shows |-> shows[d], says |-> Shown(d)]]
  /\ UNCHANGED <<ruleVars, specVars, locks, tx, history>>

\* A rule whose section is gone leaves the candidate's arrangement.
UpdateRevision(d, says) ==
  /\ docTx[d] = None /\ state[d] = "accepted" /\ candidate[d] # None
  /\ candidate' = [candidate EXCEPT ![d] =
       [says |-> says,
        shows |-> [r \in Rules |-> IF says[r] = None THEN 0 ELSE @.shows[r]]]]
  /\ UNCHANGED <<ruleVars, specVars, locks, tx, history>>

DiscardRevision(d) ==
  /\ docTx[d] = None /\ candidate[d] # None
  /\ candidate' = [candidate EXCEPT ![d] = None]
  /\ UNCHANGED <<ruleVars, specVars, locks, tx, history>>

-----------------------------------------------------------------------------
(* Acceptance *)

\* AcceptDoc: only a draft spec.
OpenAccept(c, d) ==
  /\ tx[c] = Idle /\ docTx[d] = None /\ state[d] = "draft"
  /\ docTx' = [docTx EXCEPT ![d] = c]
  /\ tx' = [tx EXCEPT ![c] = [Idle EXCEPT !.step = "written", !.kind = "accept", !.doc = d]]
  /\ UNCHANGED <<ruleVars, specVars, ruleTx, candidate, history>>

\* A rule's version and status as transaction t reads them.
Latest(t, r)  == IF r \in Bumped(t) THEN Version(r) + 1 ELSE Version(r)
IsDraft(t, r) == r \in Bumped(t) \/ status[r] = "draft"

\* Only accepted specs.
BehindAccepted(t, rules) ==
  {e \in Specs \ {t.doc} :
     state[e] = "accepted" /\ \E r \in rules : shows[e][r] # 0 /\ shows[e][r] < Latest(t, r)}

\* moveSpecsToAcceptedRules reads the specs that are behind, and which of
\* them are accepted.
Behind(t, rules) ==
  {e \in Specs \ {t.doc} : \E r \in rules : shows[e][r] # 0 /\ shows[e][r] < Latest(t, r)}

Accepting(c, t, rules) ==
  /\ \A r \in rules : ruleTx[r] \in {None, c}
  /\ ruleTx' = [r \in Rules |-> IF r \in rules THEN c ELSE ruleTx[r]]
  /\ tx' = [tx EXCEPT ![c] =
       [t EXCEPT !.step = "done", !.takes = rules, !.todo = Behind(t, rules),
                 !.bumps = {e \in Behind(t, rules) : state[e] = "accepted"}]]
  /\ UNCHANGED <<ruleVars, specVars, docTx, candidate, history>>

\* A publication that leaves the rules as they are.
AcceptDocOnly(c) ==
  LET t == tx[c] IN
  /\ t.step = "written"
  /\ Accepting(c, t, {})

\* acceptDocRules accepts every draft that the spec arranges, at whatever
\* version it shows it.
AcceptDocRules(c) ==
  LET t == tx[c]
      a == IF t.kind = "land" THEN t.new ELSE shows[t.doc] IN
  /\ t.step = "written"
  /\ Accepting(c, t, {r \in Rules : a[r] # 0 /\ IsDraft(t, r)})

AcceptRule(c, r) ==
  /\ tx[c] = Idle /\ status[r] = "draft"
  /\ ruleTx[r] = None
  /\ Accepting(c, [Idle EXCEPT !.kind = "rule"], {r})

\* A spec that was read as accepted is bumped, which waits for its docs row.
MoveBumped(c, e) ==
  /\ e \in tx[c].todo \intersect tx[c].bumps
  /\ docTx[e] = None /\ at[e] < MaxAt
  /\ docTx' = [docTx EXCEPT ![e] = c]
  /\ tx' = [tx EXCEPT ![c].todo = @ \ {e}, ![c].done = @ \union {e}]
  /\ UNCHANGED <<ruleVars, specVars, ruleTx, candidate, history>>

\* A draft follows without a bump.  Rows that an open save has deleted make
\* the UPDATE wait: once the save has committed it finds none of them.
MoveDraft(c, e) ==
  /\ e \in tx[c].todo \ tx[c].bumps
  /\ IF \E o \in Clients : Rearranging(e, o)
     THEN tx' = [tx EXCEPT ![c].todo = @ \ {e}, ![c].stuck = @ \union {e}]
     ELSE tx' = [tx EXCEPT ![c].todo = @ \ {e}, ![c].done = @ \union {e}]
  /\ UNCHANGED <<ruleVars, specVars, locks, candidate, history>>

-----------------------------------------------------------------------------
(* Ends of transactions *)

Release(c) ==
  /\ ruleTx' = [r \in Rules |-> IF ruleTx[r] = c THEN None ELSE ruleTx[r]]
  /\ docTx' = [d \in Specs |-> IF docTx[d] = c THEN None ELSE docTx[d]]

\* The other transactions once c has ended; those that wait for d's rows are
\* in the set given.
Others(c, d, next) ==
  [o \in Clients |->
    IF o = c THEN Idle
    ELSE IF d \in tx[o].stuck THEN next[o]
    ELSE tx[o]]

\* The arrangement that moves e to the rules t has accepted.
Moved(t, e) ==
  [r \in Rules |->
    IF r \in t.takes /\ shows[e][r] # 0 THEN Max2(shows[e][r], Latest(t, r))
    ELSE shows[e][r]]

\* The specs whose version rises: the one written and those bumped.
Rises(t) ==
  (IF t.kind \in {"save", "land"} THEN {t.doc} ELSE {}) \union (t.done \intersect t.bumps)

Commit(c) ==
  LET t == tx[c] IN
  /\ t.step = "done" /\ t.todo = {} /\ t.stuck = {}
  /\ text' = [r \in Rules |->
       IF r \in Bumped(t) THEN Append(text[r], t.says[r])
       ELSE IF r \in Changed(t) THEN [text[r] EXCEPT ![t.saw[r].version] = t.says[r]]
       ELSE text[r]]
  /\ status' = [r \in Rules |->
       IF r \in t.takes THEN "accepted" ELSE IF r \in Bumped(t) THEN "draft" ELSE status[r]]
  /\ approved' = [r \in Rules |->
       IF r \in t.takes THEN approved[r] \union {Latest(t, r)} ELSE approved[r]]
  /\ state' = [d \in Specs |-> IF t.kind = "accept" /\ d = t.doc THEN "accepted" ELSE state[d]]
  /\ shows' = [d \in Specs |->
       IF t.kind \in {"save", "land"} /\ d = t.doc THEN t.new
       ELSE IF d \in t.done THEN Moved(t, d) ELSE shows[d]]
  /\ at' = [d \in Specs |-> IF d \in Rises(t) THEN at[d] + 1 ELSE at[d]]
  /\ kept' = [d \in Specs |-> IF d \in Rises(t) THEN Shown(d) ELSE kept[d]]
  /\ candidate' = [d \in Specs |-> IF t.kind = "land" /\ d = t.doc THEN None ELSE candidate[d]]
  /\ met' = met
       \union {d \in Specs : t.takes # {} /\ docTx[d] \notin {None, c}}
       \union {d \in {t.doc} \intersect Specs : \E o \in Clients \ {c} : tx[o].takes # {}}
  /\ tx' = Others(c, t.doc, [o \in Clients |-> [tx[o] EXCEPT !.stuck = @ \ {t.doc}]])
  /\ Release(c)
  /\ UNCHANGED crossed

\* A crash, a refusal, a deadlock or a key that another transaction took.
Abort(c) ==
  LET d == tx[c].doc IN
  /\ tx[c] # Idle
  /\ tx' = Others(c, d, [o \in Clients |-> [tx[o] EXCEPT !.stuck = @ \ {d}, !.todo = @ \union {d}]])
  /\ Release(c)
  /\ UNCHANGED <<ruleVars, specVars, candidate, history>>

-----------------------------------------------------------------------------
\* Specs as they were created, their sections minted as draft rules or
\* naming a rule of another.
Init ==
  /\ text \in [Rules -> {<<w>> : w \in Texts}]
  /\ status = [r \in Rules |-> "draft"]
  /\ shows \in [Specs -> [Rules -> {0, 1}]]
  /\ state = [d \in Specs |-> "draft"]
  /\ at = [d \in Specs |-> 1]
  /\ kept = [d \in Specs |-> Nothing]
  /\ candidate = [d \in Specs |-> None]
  /\ ruleTx = [r \in Rules |-> None]
  /\ docTx = [d \in Specs |-> None]
  /\ tx = [c \in Clients |-> Idle]
  /\ approved = [r \in Rules |-> {}]
  /\ crossed = {} /\ met = {}

Edit ==
  \/ \E c \in Clients, d \in Specs, says \in Wording : OpenSave(c, d, says)
  \/ \E c \in Clients, d \in Specs : OpenLand(c, d)
  \/ \E c \in Clients : Write(c)
  \/ \E r \in Rules, says \in Texts : EditRule(r, says)

Revise ==
  \/ \E d \in Specs : ReviseDoc(d)
  \/ \E d \in Specs, says \in Wording : UpdateRevision(d, says)
  \/ \E d \in Specs : DiscardRevision(d)

Accept ==
  \/ \E c \in Clients, d \in Specs : OpenAccept(c, d)
  \/ \E c \in Clients : AcceptDocRules(c)
  \/ \E c \in Clients, r \in Rules : AcceptRule(c, r)
  \/ \E c \in Clients, e \in Specs : MoveBumped(c, e)
  \/ \E c \in Clients, e \in Specs : MoveDraft(c, e)

Next ==
  \/ Edit
  \/ Revise
  \/ Accept
  \/ \E c \in Clients : Commit(c)
  \/ \E c \in Clients : Abort(c)

Spec == Init /\ [][Next]_vars

-----------------------------------------------------------------------------
(* Properties *)

\* The shapes of the tables and of what a transaction holds.
TypeOK ==
  /\ text \in [Rules -> UNION {[1..n -> Texts] : n \in 1..MaxVersion}]
  /\ status \in [Rules -> {"draft", "accepted"}]
  /\ ruleTx \in [Rules -> Clients \union {None}]
  /\ state \in [Specs -> {"draft", "accepted"}]
  /\ at \in [Specs -> 1..MaxAt]
  /\ shows \in [Specs -> Arrangement]
  /\ docTx \in [Specs -> Clients \union {None}]
  /\ candidate \in [Specs -> [shows : Arrangement, says : Wording] \union {None}]
  /\ kept \in [Specs -> Wording]
  /\ \A d \in Specs, r \in Rules : shows[d][r] <= Version(r)
  /\ approved \in [Rules -> SUBSET (1..MaxVersion)]

\* An accepted version of a spec is fixed: what it shows changes only when
\* its version rises, and doc_versions then keeps what was shown
\* (versions.go:72-80).  Not so where a save and an acceptance met.
PublishedStands ==
  [][\A d \in Specs \ met' :
       (state[d] = "accepted" /\ Shown(d)' # Shown(d)
         /\ \A r \in crossed' : shows[d][r] = 0)
       => at'[d] = at[d] + 1 /\ kept'[d] = Shown(d)]_vars

\* The commit that accepts a rule leaves every other spec that arranges it
\* at the accepted version or past it (versions.go:72-80), unless the spec was
\* being written.
AcceptanceReaches ==
  [][\A r \in Rules, d \in Specs \ met' :
       (approved'[r] # approved[r] /\ shows'[d][r] # 0
         /\ \A c \in Clients : tx[c].doc = d => tx[c].kind \notin {"accept", "land"})
       => shows'[d][r] >= Len(text'[r])]_vars

\* A spec never goes back to an older version of a rule it keeps, a landed
\* candidate that was opened before the rule moved included (rules.go:185-188).
NeverBack ==
  [][\A d \in Specs, r \in Rules :
       shows'[d][r] # 0 => shows'[d][r] >= shows[d][r]]_vars

=============================================================================
