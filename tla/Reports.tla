------------------------------ MODULE Reports ------------------------------
(***************************************************************************)
(* Aggregate reports: the messages they come in, the classes they are      *)
(* parsed into (model/dmarc_0_1, model/dmarc_2_0), and the rules by which  *)
(* deserialization.py finds, parses and converts them.                     *)
(*                                                                         *)
(* The classes have the fields that the conversion reads.  The one `spf`   *)
(* of a 2.0 report is a sequence of at most one element here.              *)
(***************************************************************************)
EXTENDS Integers, Sequences

CONSTANTS
    Name,       \* organisations, domains and senders
    None,       \* Python's None: what the XML does not contain
    Text        \* text that does not convert: the parser warns and leaves it

ASSUME NameAssumption == None \notin Name /\ Text \notin Name /\ "" \notin Name

ASSUME TextAssumption == Text # None /\ Text \notin Nat

Version == {"0.1", "2.0"}

Optional(S) == S \cup {None}

\* What xsdata leaves in a field of an enumeration or number.
Field(S) == S \cup {None, Text}

-----------------------------------------------------------------------------
(* The data classes. *)

DispositionType == {"none", "quarantine", "reject"}

ActionDispositionType == {"none", "pass", "quarantine", "reject"}

DkimresultType == {"none", "pass", "fail", "policy", "neutral", "temperror", "permerror"}

SpfresultType(v) ==
    {"none", "pass", "fail", "softfail", "neutral", "temperror", "permerror"}
        \cup (IF v = "2.0" THEN {"policy"} ELSE {})

DmarcresultType == {"pass", "fail"}

DkimauthResultType == [domain : Optional(Name), result : Field(DkimresultType)]

SpfauthResultType(v) == [domain : Optional(Name), result : Field(SpfresultType(v))]

AuthResultType(v) == [dkim : Seq(DkimauthResultType), spf : Seq(SpfauthResultType(v))]

PolicyEvaluatedType(v) ==
    [disposition : Field(IF v = "2.0" THEN ActionDispositionType ELSE DispositionType),
     dkim : Field(DmarcresultType),
     spf : Field(DmarcresultType)]

\* XML Schema lets a count be negative; the model does not.
RowType(v) == [count : Field(Nat), policy_evaluated : Optional(PolicyEvaluatedType(v))]

IdentifierType == [header_from : Optional(Name)]

RecordType(v) ==
    [row : Optional(RowType(v)),
     identifiers : Optional(IdentifierType),
     auth_results : Optional(AuthResultType(v))]

ReportMetadataType == [org_name : Optional(Name)]

Feedback(v) == [report_metadata : Optional(ReportMetadataType), record : Seq(RecordType(v))]

\* What a parser returns for a document without any element it knows.
EmptyFeedback == [report_metadata |-> None, record |-> <<>>]

-----------------------------------------------------------------------------
(* Messages: parts with payloads, each payload an XML document or not. *)

Written(v) == [schema : {v}, unknown : BOOLEAN, feedback : Feedback(v)]

Document ==
    Written("0.1") \cup Written("2.0")
        \cup [schema : {"malformed"}, unknown : {FALSE}, feedback : {EmptyFeedback}]

Part == [type : STRING, ext : STRING, docs : Seq(Document)]

Message == [from : Optional(Name), parts : Seq(Part)]

content_type_handlers ==
    {"application/octet-stream", "application/gzip", "application/zip", "text/xml"}

file_extension_handlers == {".gz", ".zip"}

\* The part is looked at, and its handler is found and yields its payloads.
IsPayload(part) == part.type \in content_type_handlers

HasHandler(part) ==
    part.type = "application/octet-stream" => part.ext \in file_extension_handlers

\* The strict parser takes 2.0 reports without unknown elements; the other one
\* takes anything, but knows only the elements of 0.1, which have no namespace.
Parse(doc) ==
    IF doc.schema = "2.0" /\ doc.unknown THEN EmptyFeedback ELSE doc.feedback

Parses(doc) == doc.schema # "malformed"

-----------------------------------------------------------------------------
(* convert_to_events for one record. *)

Meta == [reporter : Name \cup {""}, from_domain : Name \cup {""},
         dkim_domain : Name \cup {""}, spf_domain : Name \cup {""}]

Disposition == {"none", "quarantine", "reject"}

ASSUME NoneAssumption == None \notin Disposition /\ None \notin Nat

DmarcResult == [disposition : Disposition, dkim_pass : BOOLEAN, spf_pass : BOOLEAN,
                dkim_aligned : BOOLEAN, spf_aligned : BOOLEAN]

DmarcEvent == [count : Nat \cup {Text}, meta : Meta, result : DmarcResult]

\* Variant: aligned or passed.
dmarc_compliant_either(result) ==
    \/ result.dkim_aligned \/ result.dkim_pass
    \/ result.spf_aligned \/ result.spf_pass

dmarc_compliant(result) ==
    \/ result.dkim_aligned /\ result.dkim_pass
    \/ result.spf_aligned /\ result.spf_pass

OrEmpty(name) == IF name = None THEN "" ELSE name

\* Variant: the count as it is.
CountAsIs(n) == n

\* Zero and nothing both count as one message.
CountOrOne(n) == IF n \in {None, 0} THEN 1 ELSE n

\* Only the first result counts, whatever the others say.
FirstDomain(results) == IF results = <<>> THEN "" ELSE OrEmpty(results[1].domain)

FirstPasses(results) == results # <<>> /\ results[1].result = "pass"

Dkim(record) == IF record.auth_results = None THEN <<>> ELSE record.auth_results.dkim

Spf(record) == IF record.auth_results = None THEN <<>> ELSE record.auth_results.spf

Evaluated(record) == record.row.policy_evaluated

\* Variant: the mapping is asked for a disposition that is not there, too.
MapsPresent(record) ==
    Evaluated(record) # None => Evaluated(record).disposition \in Disposition

\* _map_disposition has an answer; otherwise it raises a KeyError.
MapsDisposition(record) ==
    Evaluated(record) # None => Evaluated(record).disposition \in Disposition \cup {None}

_map_disposition(disposition) == IF disposition = None THEN "none" ELSE disposition

EventOf(feedback, record) ==
    [count |-> CountOrOne(record.row.count),
     meta |->
        [reporter |-> IF feedback.report_metadata = None
                      THEN "" ELSE OrEmpty(feedback.report_metadata.org_name),
         from_domain |-> IF record.identifiers = None
                         THEN "" ELSE OrEmpty(record.identifiers.header_from),
         dkim_domain |-> FirstDomain(Dkim(record)),
         spf_domain |-> FirstDomain(Spf(record))],
     result |->
        [disposition |-> IF Evaluated(record) = None
                         THEN "none" ELSE _map_disposition(Evaluated(record).disposition),
         dkim_pass |-> FirstPasses(Dkim(record)),
         spf_pass |-> FirstPasses(Spf(record)),
         dkim_aligned |-> Evaluated(record) # None /\ Evaluated(record).dkim = "pass",
         spf_aligned |-> Evaluated(record) # None /\ Evaluated(record).spf = "pass"]]
=============================================================================
