---------------------------- MODULE RecordRules ----------------------------
(***************************************************************************)
(* The record model of journal/records.py: which fields a record may carry *)
(* under which schema, the read-time rules and the schema each applies     *)
(* from (ADR-0015), the builders and the schema they stamp, and the three  *)
(* ways a record meets the rules: a command writes it, a candidate adds    *)
(* its file and the gate checks it, a reader loads it.                     *)
(*                                                                         *)
(* A record is [schema, type, task, f]; f maps each key it carries to what *)
(* the rules can tell of the value:                                        *)
(*   ok     well formed            blank  white space only                 *)
(*   bad    not of the shape asked line   adds a line to rendered output   *)
(*   long   past the field's bound raw    text UTF-8 cannot encode         *)
(*   empty  an empty array         other  the second value a rule singles  *)
(*                                        out: an approving verdict, the   *)
(*                                        coordination activity, ...       *)
(* Keys inside an object a rule looks into are written object.key; they    *)
(* are not keys of the record.                                             *)
(***************************************************************************)
EXTENDS RecordTypes, FiniteSets

CONSTANTS RuleTypes,     \* the record types asked about
          Tasks,     \* the tasks of the journal
          MaxGiven   \* bound on the optional arguments of one call

ASSUME RuleTypesAssumption == RuleTypes \subseteq RecordTypes

VARIABLES journal,   \* the files under records/: [dir, name, rec]
          asked      \* the last record asked about and what became of it

rulesVars == <<journal, asked>>

----------------------------------------------------------------------------
\* Fields.

Common == {"created_at", "tool_version"}

\* _RECORD_FIELDS: what the base record model lets each type carry.
BaseFields ==
  [t \in RecordTypes |-> Common \cup
    CASE t = "review" ->
           {"reviewed_commit", "reviewed_finding", "verdict", "reviewer",
            "findings", "advisory_findings"}
      [] t = "acceptance" ->
           {"accepted_commit", "accepted_finding", "accepted_by", "findings",
            "reason"}
      [] t = "completed" -> {"completed_commit", "completed_finding"}
      [] t \in {"abandoned", "reopened", "amendment"} -> {"reason"}
      [] t = "session" -> {"role", "actor", "activity", "outcome", "tokens"}
      [] t = "finding" -> {"summary"}
      [] OTHER -> {}]

ProvenanceFields ==
  {"source", "artifacts", "recorded_by", "recorded_by_source"}
BindingFields4 == {"reviewed_finding", "accepted_finding", "completed_finding"}
SessionFields7 ==
  {"commit", "model", "trace", "cli_session", "report_ready",
   "fallback_reason", "started_at", "ended_at", "resets_at", "cost"}
ContractFields7 == {"contract"}
CheckFields7 ==
  {"commit", "name", "result", "failed_step", "excerpt", "run_url"}
AcknowledgementFields7 == {"commit", "file", "signature", "marker", "reason"}
AcceptanceFields7 == {"accepted_pause", "operational"}
ReviewFields7 == {"previous_review", "classes", "verification", "evidence"}
CompletedFields7 == {"advisory_dispositions"}
ExtFields7 == {"kind", "commit", "payload", "payload_sha256"}

\* _FIELD_FAMILIES: the fields each schema adds, and to which types.
FieldFamilies ==
  { <<2, RecordTypes, ProvenanceFields>>,
    <<2, {"session"}, {"usage"}>>,
    <<5, {"review"}, {"reviewed_contract"}>>,
    <<7, {"session"}, SessionFields7>>,
    <<7, {"opened", "amendment", "agreement"}, ContractFields7>>,
    <<7, {"check"}, CheckFields7>>,
    <<7, {"acknowledgement"}, AcknowledgementFields7>>,
    <<7, {"acceptance"}, AcceptanceFields7>>,
    <<7, {"review"}, ReviewFields7>>,
    <<7, {"completed"}, CompletedFields7>>,
    <<7, {"ext"}, ExtFields7>> }

AllowedFields(type, schema) ==
  BaseFields[type] \cup
    UNION {fam[3] : fam \in {g \in FieldFamilies : schema >= g[1] /\ type \in g[2]}}

\* The fields of the text tables: a character bound, a byte bound, a bound on
\* the canonical JSON, and the strings rendered output shows.
Bounded == {<<"acknowledgement", "reason">>, <<"check", "excerpt">>,
            <<"ext", "payload">>}
ForgeableText ==
  [t \in RecordTypes |->
    CASE t = "session" ->
           {"commit", "model", "trace", "cli_session", "fallback_reason"}
      [] t \in {"opened", "amendment", "agreement"} -> {"contract"}
      [] t = "check" -> {"name", "failed_step", "excerpt", "run_url"}
      [] t = "acknowledgement" -> {"file", "reason"}
      [] t = "review" -> {"previous_review"}
      [] t = "ext" -> {"kind", "commit", "payload_sha256"}
      [] OTHER -> {}]

----------------------------------------------------------------------------
\* Values.

Nested == {"reviewer.actor", "entry.reason", "entry.follow_up"}
Classes ==
  {"ok", "blank", "bad", "line", "long", "raw", "empty", "other"}
\* forges_rendered_text
Forging == {"line", "raw"}
String == {"ok", "blank", "line", "long", "raw", "other"}  \* isinstance, not ""
Text == String \ {"blank"}                                 \* and strip() is not
PlainText == Text \ Forging
PlainString == String \ Forging
Shape == {"ok"}                                            \* hex, ULID, vocabulary

Keys(r) == DOMAIN r.f \ Nested
Has(r, x) == x \in DOMAIN r.f
Must(r, xs, V) == \A x \in xs : Has(r, x) /\ r.f[x] \in V
May(r, xs, V) == \A x \in xs : Has(r, x) => r.f[x] \in V
OneOf(r, xs) == Cardinality(DOMAIN r.f \cap xs) = 1

----------------------------------------------------------------------------
\* Rules.

\* A commit or a finding binding, one of them and well formed.
Binding(r, commit, finding) ==
  OneOf(r, {commit, finding}) /\ May(r, {commit, finding}, Shape)

\* Verdict and findings go together: an approval has none, any other some.
ReviewRule(r) ==
  /\ Binding(r, "reviewed_commit", "reviewed_finding")
  /\ Must(r, {"verdict"}, {"ok", "other"})
  /\ Must(r, {"reviewer"}, String)
  /\ Has(r, "reviewer.actor") => r.schema >= 7
  /\ Must(r, {"findings"}, {"ok", "empty"})
  /\ (r.f["verdict"] = "other") <=> (r.f["findings"] = "empty")
  /\ May(r, {"advisory_findings"}, {"ok", "empty"})
  /\ May(r, {"reviewed_contract"}, Shape)

AcceptanceRule(r) ==
  /\ Binding(r, "accepted_commit", "accepted_finding")
  /\ Must(r, {"accepted_by", "reason"}, PlainText)
  /\ OneOf(r, AcceptanceFields7 \cup {"findings"})
  /\ May(r, {"findings"}, Shape)

FindingRule(r) ==
  Must(r, {"summary"}, PlainText) /\ Must(r, {"artifacts"}, Shape)

\* A closed object: a decimal written as a string, a currency, a source.
CostRule(r) == May(r, {"cost"}, Shape)
SessionTimes(r) ==
  /\ May(r, {"started_at", "resets_at"}, {"ok", "line", "raw"})
  /\ Has(r, "started_at") <=> Has(r, "ended_at")
  /\ May(r, {"ended_at"}, {"ok", "line", "raw"}) \* "other": before the start
  /\ Has(r, "resets_at") => r.f["outcome"] = "other"
SessionRule7(r) ==
  /\ May(r, {"commit"}, Shape)
  /\ May(r, {"model", "trace", "cli_session", "fallback_reason"}, Text)
  /\ May(r, {"report_ready"}, Shape)
  /\ SessionTimes(r)
  /\ CostRule(r)

CheckRule7(r) ==
  /\ Must(r, {"commit", "result"}, Shape)
  /\ Must(r, {"name"}, Text)
  /\ May(r, {"failed_step", "excerpt", "run_url"}, Text)

AcknowledgementRule7(r) ==
  /\ Must(r, {"commit"}, Shape)
  /\ Must(r, {"file", "reason"}, Text)
  /\ OneOf(r, {"signature", "marker"})
  /\ May(r, {"signature", "marker"}, Shape)

AcceptanceRule7(r) ==
  Keys(r) \cap AcceptanceFields7 # {}
    => /\ ~Has(r, "accepted_finding")
       /\ May(r, AcceptanceFields7, Shape)

\* The keys of classes and evidence name findings the record carries: "ok"
\* names a blocking one, "other" an advisory one.
NamesItsFindings(r, x) ==
  Has(r, x) => \/ r.f[x] = "ok" /\ r.f["findings"] # "empty"
               \/ /\ r.f[x] = "other"
                  /\ Has(r, "advisory_findings")
                  /\ r.f["advisory_findings"] # "empty"
\* Sections of entries, none of them empty, every string in them plain text.
VerificationRule(r) == May(r, {"verification"}, Shape)
ReviewRule7(r) ==
  /\ May(r, {"previous_review"}, Shape)
  /\ NamesItsFindings(r, "classes") /\ NamesItsFindings(r, "evidence")
  /\ VerificationRule(r)
  /\ May(r, {"reviewer.actor"}, PlainText)

\* A disposition: "ok" is fixed, "other" deferred, "long" rejected.
DispositionRule(r) ==
  /\ r.f["advisory_dispositions"] \in {"ok", "other", "long"}
  /\ May(r, {"entry.reason"}, PlainText)
  /\ r.f["advisory_dispositions"] # "ok" => Has(r, "entry.reason")
  /\ Has(r, "entry.follow_up") => /\ r.f["advisory_dispositions"] = "other"
                                  /\ r.f["entry.follow_up"] \in Shape
CompletedRule7(r) ==
  Has(r, "advisory_dispositions")
    => ~Has(r, "completed_finding") /\ DispositionRule(r)

\* payload_sha256 "other": well formed and not the hash of the payload.
ExtRule7(r) ==
  /\ Must(r, {"kind"}, {"ok", "line", "raw"})
  /\ Must(r, {"commit", "payload_sha256"}, Shape)
  /\ Must(r, {"payload"}, Classes \ {"bad", "raw"})

Provenance(r) ==
  r.schema >= 2 => /\ Must(r, {"source"}, Shape)
                   /\ May(r, {"artifacts"}, {"ok", "line", "raw", "empty"})

RequiresRecordedBy ==
  {"finding", "check", "agreement", "acknowledgement", "ext"}
RecordedBy(r) ==
  /\ Has(r, "recorded_by") <=> Has(r, "recorded_by_source")
  /\ r.type \in RequiresRecordedBy => Has(r, "recorded_by")
  /\ May(r, {"recorded_by"}, String) /\ May(r, {"recorded_by_source"}, Shape)

FindingBinding(r) ==
  (r.type = "finding" \/ Keys(r) \cap BindingFields4 # {}) => r.schema >= 4


\* The named finding is one of the task's, where the caller can say so.
BindingTarget(r, c) ==
  Keys(r) \cap BindingFields4 # {} => c.finding # "missing"

TimestampText(r) ==
  /\ May(r, {"created_at"}, Classes \ Forging)
  /\ r.type = "session"
       => May(r, {"started_at", "ended_at", "resets_at"}, Classes \ Forging)

\* The measurement and agreement types exist from schema 7.
TypeSchema(r) ==
  r.type \in {"check", "agreement", "acknowledgement", "ext"} => r.schema >= 7

ReasonRule(r) ==
  /\ r.type = "abandoned" => Must(r, {"reason"}, String)
  /\ r.type \in {"reopened", "amendment"} => Must(r, {"reason"}, Text)

SessionRule(r) ==
  /\ Must(r, {"role", "actor", "outcome"}, String)
  /\ Must(r, {"activity"}, {"ok", "other"})
  /\ Must(r, {"tokens"}, Shape)
  /\ May(r, {"usage"}, String)

\* The schema-7 shape rule of each type.
FieldsRule7(r) ==
  /\ May(r, {"contract"}, Shape)
  /\ r.type = "agreement" => Has(r, "contract")
  /\ r.type = "session" => SessionRule7(r)
  /\ r.type = "check" => CheckRule7(r)
  /\ r.type = "acknowledgement" => AcknowledgementRule7(r)
  /\ r.type = "acceptance" => AcceptanceRule7(r)
  /\ r.type = "review" => ReviewRule7(r)
  /\ r.type = "completed" => CompletedRule7(r)
  /\ r.type = "ext" => ExtRule7(r)

\* The text and JSON bounds; the canonical form of a payload is UTF-8.
BoundedRule(r) ==
  \A x \in DOMAIN r.f : <<r.type, x>> \in Bounded
     => r.f[x] \in {"ok", "blank", "line", "raw"}
        /\ (x = "payload" => r.f[x] # "raw")

\* The rules of schema 1 over each type's own fields.
TypeRule(r) ==
  /\ r.type = "review" => ReviewRule(r)
  /\ r.type = "acceptance" => AcceptanceRule(r)
  /\ r.type = "completed" => Binding(r, "completed_commit", "completed_finding")
  /\ r.type = "finding" => FindingRule(r)
  /\ r.type = "session" => SessionRule(r)
  /\ ReasonRule(r)

\* What a rule compares the record with beside itself, its context: the task
\* of the directory it lies in and the type its file name says, any of them
\* where the caller cannot say, and whether the task holds the finding named.
Placement(r, c) == r.task \in c.tasks /\ r.type \in c.names

Rules ==
  {"fields", "created-at", "tool-version", "types", "type-schema",
   "recorded-by", "placement", "binding-target", "provenance",
   "finding-binding", "reviewed-contract", "coordination", "fields-7",
   "bounded", "forgeable-text", "artifact-ref-text", "timestamp-text"}

\* _RULE_FROM_SCHEMA: the schema a rule applies from when a record is read.
FromSchema(n) ==
  CASE n = "provenance" -> 2
    [] n = "finding-binding" -> 4
    [] n = "reviewed-contract" -> 5
    [] n = "coordination" -> 6
    [] n \in {"fields-7", "bounded", "forgeable-text"} -> 7
    [] n \in {"artifact-ref-text", "timestamp-text"} -> 8
    [] OTHER -> 1

Passes(n, r, c) ==
  CASE n = "fields" -> Keys(r) \subseteq AllowedFields(r.type, r.schema)
    [] n = "created-at" -> Must(r, {"created_at"}, {"ok", "line", "raw"})
    [] n = "tool-version" -> Must(r, {"tool_version"}, String)
    [] n = "types" -> TypeRule(r)
    [] n = "type-schema" -> TypeSchema(r)
    [] n = "recorded-by" -> RecordedBy(r)
    [] n = "placement" -> Placement(r, c)
    [] n = "binding-target" -> BindingTarget(r, c)
    [] n = "provenance" -> Provenance(r)
    [] n = "finding-binding" -> FindingBinding(r)
    [] n = "reviewed-contract" -> Has(r, "reviewed_contract") => r.schema >= 5
    [] n = "coordination" ->
         (r.type = "session" /\ r.f["activity"] = "other") => r.schema >= 6
    [] n = "fields-7" -> FieldsRule7(r)
    [] n = "bounded" -> BoundedRule(r)
    [] n = "forgeable-text" -> May(r, ForgeableText[r.type], PlainString)
    [] n = "artifact-ref-text" -> May(r, {"artifacts"}, Classes \ Forging)
    [] n = "timestamp-text" -> TimestampText(r)

SupportedSchemas == 1..7

\* _validate_record: every rule at write, whatever schema the record carries;
\* on read the rules of the record's own schema and below.
Valid(r, forWrite, c) ==
  /\ r.schema \in SupportedSchemas
  /\ \A n \in Rules : (forWrite \/ FromSchema(n) <= r.schema) => Passes(n, r, c)

----------------------------------------------------------------------------
\* Builders: the fields a builder puts on the record for the optional
\* arguments given, no field at all where the builder itself refuses.

Exactly(given, xs) == Cardinality(given \cap xs) = 1
Emitted == Common \cup {"source"}

CreateOpened(given) == Emitted \cup given
CreateCompleted(given) ==
  IF /\ Exactly(given, {"completed_commit", "completed_finding"})
     /\ ~({"completed_finding", "advisory_dispositions"} \subseteq given)
  THEN Emitted \cup given ELSE {}
CreateFinding == Emitted \cup {"summary", "artifacts"}
CreateClosing == Emitted \cup {"reason"}      \* abandoned and reopened
CreateAmendment(given) == Emitted \cup {"reason"} \cup given
CreateSession(given) ==
  Emitted \cup {"role", "actor", "activity", "outcome", "tokens"} \cup given
CreateReview(given) ==
  IF Exactly(given, {"reviewed_commit", "reviewed_finding"})
  THEN Emitted \cup {"verdict", "reviewer", "findings"} \cup given ELSE {}
CreateAcceptance(given) ==
  IF /\ Exactly(given, {"accepted_commit", "accepted_finding"})
     /\ Exactly(given, {"findings", "accepted_pause", "operational"})
     /\ "accepted_finding" \in given => "findings" \in given
  THEN Emitted \cup {"accepted_by", "reason"} \cup given ELSE {}
CreateCheck(given) == Emitted \cup {"commit", "name", "result"} \cup given
CreateAcknowledgement(given) ==
  IF Exactly(given, {"signature", "marker"})
  THEN Emitted \cup {"commit", "file", "reason"} \cup given ELSE {}
CreateAgreement == Emitted \cup {"contract"}
CreateExt == Emitted \cup {"kind", "commit", "payload", "payload_sha256"}

\* The optional arguments of each builder.
Arguments ==
  [t \in RecordTypes |->
    CASE t \in {"opened", "amendment"} -> {"contract"}
      [] t = "completed" ->
           {"completed_commit", "completed_finding", "advisory_dispositions",
            "entry.reason", "entry.follow_up"}
      [] t = "session" -> SessionFields7 \cup {"usage"}
      [] t = "review" ->
           {"reviewed_commit", "reviewed_finding", "reviewed_contract",
            "advisory_findings", "artifacts", "reviewer.actor"}
             \cup ReviewFields7
      [] t = "acceptance" ->
           {"accepted_commit", "accepted_finding", "findings"}
             \cup AcceptanceFields7
      [] t = "check" -> {"failed_step", "excerpt", "run_url"}
      [] t = "acknowledgement" -> {"signature", "marker"}
      [] OTHER -> {}]

Created(t, given) ==
  CASE t = "opened" -> CreateOpened(given)
    [] t = "completed" -> CreateCompleted(given)
    [] t = "finding" -> CreateFinding
    [] t \in {"abandoned", "reopened"} -> CreateClosing
    [] t = "amendment" -> CreateAmendment(given)
    [] t = "session" -> CreateSession(given)
    [] t = "review" -> CreateReview(given)
    [] t = "acceptance" -> CreateAcceptance(given)
    [] t = "check" -> CreateCheck(given)
    [] t = "acknowledgement" -> CreateAcknowledgement(given)
    [] t = "agreement" -> CreateAgreement
    [] t = "ext" -> CreateExt

Highest(S) == CHOOSE s \in S : \A q \in S : q <= s

\* Mutation: the actor inside the reviewer object does not raise the stamp.
StampByKeys(t, f) ==
  LET keys == DOMAIN f \ Nested IN
  Highest({3}
    \cup {s \in {4} : t = "finding" \/ keys \cap BindingFields4 # {}}
    \cup {s \in {5} : "reviewed_contract" \in keys}
    \cup {s \in {6} : "activity" \in keys /\ f["activity"] = "other"}
    \cup {s \in {7} : \/ keys \cap (SessionFields7 \cup ContractFields7
                           \cup AcceptanceFields7 \cup ReviewFields7
                           \cup CompletedFields7) # {}
                      \/ t \in {"check", "agreement", "acknowledgement", "ext"}})

\* _minimum_schema, from the baseline 3.
MinimumSchema(t, f) ==
  LET keys == DOMAIN f \ Nested IN
  Highest({3}
    \cup {s \in {4} : t = "finding" \/ keys \cap BindingFields4 # {}}
    \cup {s \in {5} : "reviewed_contract" \in keys}
    \cup {s \in {6} : "activity" \in keys /\ f["activity"] = "other"}
    \cup {s \in {7} : \/ keys \cap (SessionFields7 \cup ContractFields7
                           \cup AcceptanceFields7 \cup ReviewFields7
                           \cup CompletedFields7) # {}
                      \/ "reviewer.actor" \in DOMAIN f
                      \/ t \in {"check", "agreement", "acknowledgement", "ext"}})

\* Every value as asked, save the second words in os and one value v at x.
Values(fields, os, x, v) ==
  [y \in fields |-> IF y = x THEN v ELSE IF y \in os THEN "other" ELSE "ok"]
\* An empty list of a review's own optional ones is left out.
LeftOut(f, x) == x \in {"advisory_findings", "artifacts"} /\ f[x] = "empty"
Build(t, task, given, os, x, v) ==
  LET g == Values(Created(t, given), os, x, v)
      f == [y \in {z \in DOMAIN g : t = "review" => ~LeftOut(g, z)} |-> g[y]] IN
  [schema |-> MinimumSchema(t, f), type |-> t, task |-> task, f |-> f]

----------------------------------------------------------------------------
\* Records meet the rules.

NotAsked == [by |-> "nobody"]

FindingOf(task) ==
  [schema |-> 4, type |-> "finding", task |-> task,
   f |-> [x \in CreateFinding \cup {"recorded_by", "recorded_by_source"}
            |-> "ok"]]

RulesInit ==
  /\ journal \in {{}} \cup {{[dir |-> t, name |-> "finding",
                             rec |-> FindingOf(t)]} : t \in Tasks}
  /\ asked = NotAsked

HoldsFinding(task) ==
  \E e \in journal : e.dir = task /\ e.rec.type = "finding"

\* The recorder is derived: stamped from schema 2 on, where it resolves.
Recorder == {"recorded_by", "recorded_by_source"}
Stamped(r, resolves) ==
  IF r.schema >= 2 /\ resolves
  THEN [r EXCEPT !.f = [x \in DOMAIN r.f \cup Recorder |->
                          IF x \in DOMAIN r.f THEN r.f[x] ELSE "ok"]]
  ELSE r

\* The preflight of a write: every rule, the destination and its findings.
WriteContext(task) ==
  [tasks |-> {task}, names |-> RecordTypes,
   finding |-> IF HoldsFinding(task) THEN "held" ELSE "missing"]

\* write_record once validated: encoded before the file exists, so a value
\* UTF-8 cannot hold raises and leaves nothing.
Writes(task, r) ==
  /\ journal' = IF \A x \in DOMAIN r.f : r.f[x] # "raw"
                THEN journal \cup {[dir |-> task, name |-> r.type, rec |-> r]}
                ELSE journal
  /\ asked' = [by |-> "command", rec |-> r, context |-> WriteContext(task)]

\* A command builds a record and writes it; task is the one its arguments
\* name, dest the one it writes to.
Write(t, task, dest, given, os, x, v, resolves) ==
  /\ Created(t, given) # {}
  /\ LET r == Stamped(Build(t, task, given, os, x, v), resolves) IN
       IF Valid(r, TRUE, WriteContext(dest))
       THEN Writes(dest, r)
       ELSE /\ asked' = [by |-> "command", rec |-> r,
                         context |-> WriteContext(dest)]
            /\ UNCHANGED journal

\* Mutation: the gate leaves the directory out.
AcceptedAnywhere(p) ==
  Valid(p.rec, TRUE, [tasks |-> Tasks, names |-> {p.name},
                      finding |-> "unknown"])

\* The gate on a record file a candidate adds: the write side, with the type
\* the file name says, then the task against the directory.
Accepted(p) ==
  /\ Valid(p.rec, TRUE, [tasks |-> Tasks, names |-> {p.name},
                         finding |-> "unknown"])
  /\ p.rec.task = p.dir

\* A candidate's file, made by hand from any built record under any schema.
Submit(p) ==
  /\ journal' = IF Accepted(p) THEN journal \cup {p} ELSE journal
  /\ asked' = [by |-> "candidate", rec |-> p.rec]

\* The arguments asked about; keys inside an object come with the object.
Givens(t, n) ==
  {g \in SUBSET Arguments[t] :
     /\ Cardinality(g) <= n
     /\ g \cap {"entry.reason", "entry.follow_up"} # {}
          => "advisory_dispositions" \in g}
SecondWords == {"verdict", "activity", "outcome", "advisory_dispositions"}
Alterations(xs, V) == {<<"none", "ok">>} \cup (xs \X V)
\* What a builder sets by itself is well formed.
Supplied(t, g) == Created(t, g) \ (Emitted \cup {"payload_sha256"})

RulesNext ==
  /\ asked = NotAsked
  /\ \E t \in RuleTypes, task \in Tasks :
       \/ \E g \in Givens(t, MaxGiven), os \in {{}, SecondWords} :
            \E a \in Alterations(Supplied(t, g), Classes \ {"ok"}),
               dest \in Tasks, resolves \in BOOLEAN :
              Write(t, task, dest, g, os, a[1], a[2], resolves)
       \/ \E g \in Givens(t, MaxGiven - 1), os \in {{}, SecondWords} :
            \E a \in Alterations(Created(t, g), {"line"}),
               s \in SupportedSchemas \cup {8}, resolves \in BOOLEAN,
               dir \in Tasks, name \in {t, "session"} :
              Submit([dir |-> dir, name |-> name,
                      rec |-> [Stamped(Build(t, task, g, os, a[1], a[2]), resolves)
                                 EXCEPT !.schema = s]])

RulesSpec == RulesInit /\ [][RulesNext]_rulesVars

----------------------------------------------------------------------------
(***************************************************************************)
(* Whatever a command wrote or the gate let in, a reader of the task loads *)
(* it where it lies: one record a reader refuses makes the whole task      *)
(* unreadable, and the journal is append-only.                             *)
(***************************************************************************)
WhateverEntersIsRead ==
  \A e \in journal :
    Valid(e.rec, FALSE, [tasks |-> {e.dir}, names |-> {e.name},
                        finding |-> "unknown"])

(***************************************************************************)
(* A builder stamps the least schema, from the baseline on, that admits    *)
(* the record it built: the table of fields and the derivation of the      *)
(* stamp are two lists that must agree.  Lower, the write refuses what the *)
(* model admits; higher, an installation of the version before refuses a   *)
(* record it could read.                                                   *)
(***************************************************************************)
StampIsLeastAdmitting ==
  asked.by = "command" =>
    LET admitting == {s \in 3..7 :
                        Valid([asked.rec EXCEPT !.schema = s], TRUE, asked.context)}
    IN admitting # {} => /\ asked.rec.schema \in admitting
                         /\ \A s \in admitting : asked.rec.schema <= s
============================================================================
