-------------------------------- MODULE MCApp --------------------------------
(* Small instances of App for TLC. *)
EXTENDS App, TLC

CONSTANTS r1, m1, m2

Ok(id) == [id |-> id, outcome |-> "ok"]

Bad(id, outcome) == [id |-> id, outcome |-> outcome]

\* The same report delivered twice, once beside an anonymous one.
TwiceMsg == {m1, m2}
TwiceItem == {r1}
TwiceParts == (m1 :> <<Ok(r1)>>) @@ (m2 :> <<Ok(r1), Ok(Anonymous)>>)

\* A message without a payload, and one that can be counted up to a report
\* which cannot be converted.
KindsMsg == {m1, m2}
KindsItem == {r1}
KindsParts ==
    (m1 :> <<>>)
    @@ (m2 :> <<Bad(Anonymous, "empty"), Ok(Anonymous),
                Bad(r1, "unconvertible"), Bad(Anonymous, "unparseable")>>)

\* A report that cannot be converted, and its corrected version.
CorrectedMsg == {m1, m2}
CorrectedItem == {r1}
CorrectedParts == (m1 :> <<Bad(r1, "unconvertible")>>) @@ (m2 :> <<Ok(r1)>>)
=============================================================================
