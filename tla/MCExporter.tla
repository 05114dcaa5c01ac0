----------------------------- MODULE MCExporter -----------------------------
EXTENDS Exporter

CONSTANTS a, b

MCName == {a, b}

\* Reports that vary in one thing at a time.
Verdict(d, x, y) == [disposition |-> d, dkim |-> x, spf |-> y]
RowOf(n, e) == [count |-> n, policy_evaluated |-> e]
ResultOf(d, r) == [domain |-> d, result |-> r]
Auth(x, y) == [dkim |-> x, spf |-> y]
From(d) == [header_from |-> d]
Record(row, i, x) == [row |-> row, identifiers |-> i, auth_results |-> x]
ReportBy(o, records) ==
    [report_metadata |-> IF o = None THEN None ELSE [org_name |-> o], record |-> records]
Doc(v, u, f) == [schema |-> v, unknown |-> u, feedback |-> f]
Malformed == Doc("malformed", FALSE, EmptyFeedback)

Plain(n) == Record(RowOf(n, Verdict("none", "pass", "fail")), From(a), None)
Bare == Record(RowOf(None, None), None, None)

Verdicts ==
    {Record(RowOf(2, Verdict(d, x, y)), From(a),
            Auth(<<ResultOf(a, r)>>, <<ResultOf(a, IF r = "pass" THEN "fail" ELSE "pass")>>)) :
        d \in {None, Text, "none", "quarantine", "reject"},
        x, y \in {"pass", Text}, r \in {"pass", "none"}}

Outcomes ==
    {Record(RowOf(1, Verdict("reject", "pass", "pass")), i, x) :
        i \in {None, From(None), From(b)},
        x \in {None, Auth(<<>>, <<>>), Auth(<<ResultOf(None, "pass")>>, <<>>),
               Auth(<<ResultOf(a, "fail"), ResultOf(b, "pass")>>, <<ResultOf(b, "pass")>>)}}

Single == {Doc(v, FALSE, ReportBy(o, <<r>>)) :
              v \in Version, o \in {None, a},
              r \in Verdicts \cup Outcomes \cup {Plain(n) : n \in {None, Text, 0, 3}} \cup {Bare}}

NoRow == Record(None, From(a), None)

Several == {Doc("0.1", u, ReportBy(b, rs)) : u \in BOOLEAN,
              rs \in {<<Plain(1), NoRow, Plain(0)>>, <<Plain(2), Bare, Plain(2)>>,
                      <<Plain(1), Plain(Text), Plain(1)>>}}
           \cup {Doc("2.0", TRUE, ReportBy(b, <<Plain(2), Bare>>))}

PartOf(t, e, ds) == [type |-> t, ext |-> e, docs |-> ds]
Mail(f, ps) == [from |-> f, parts |-> ps]
Body == PartOf("text/plain", "", <<>>)
Xml(d) == PartOf("text/xml", ".xml", <<d>>)

Three == Doc("0.1", FALSE, ReportBy(a, <<Plain(1), NoRow, Plain(2)>>))
Two == Doc("2.0", FALSE, ReportBy(b, <<Plain(2), Bare>>))

Mails ==
    {Mail(a, <<Body>>), Mail(None, <<>>),
     Mail(a, <<Body, PartOf("application/octet-stream", ".gz", <<Three>>)>>),
     Mail(a, <<PartOf("application/octet-stream", ".zip", <<Two, Three>>), Xml(Two)>>),
     Mail(b, <<PartOf("application/octet-stream", ".GZ", <<Three>>)>>),
     Mail(b, <<Xml(Two), Xml(Malformed), Xml(Two)>>),
     Mail(b, <<PartOf("application/zip", ".zip", <<>>)>>),
     Mail(b, <<Xml(Doc("0.1", FALSE, ReportBy(a, <<Plain(1), Plain(Text), Plain(1)>>)))>>)}

MCInboxes ==
    {<<Mail(a, <<Xml(d)>>)>> : d \in Single \cup Several} \cup {<<m, n>> : m, n \in Mails}

\* One record that has what the schema requires, with every disposition of the schema,
\* and with or without an element beside it that the schema does not know.
SupportedDoc(v, u, n, d) ==
    Doc(v, u, ReportBy(a, <<Record(RowOf(n, Verdict(d, "pass", "fail")), From(a), None)>>))

SupportedInboxes ==
    {<<Mail(a, <<Xml(SupportedDoc(v, u, n, d))>>)>> :
        v \in Version, u \in BOOLEAN, n \in {1, 2}, d \in DispositionType}
    \cup {<<Mail(a, <<Xml(SupportedDoc("2.0", FALSE, n, "pass"))>>)>> : n \in {1, 2}}
=============================================================================
