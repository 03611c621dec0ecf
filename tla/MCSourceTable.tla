--------------------------- MODULE MCSourceTable ---------------------------
(* Two hosts in both orders, with and without authentication, in lists     *)
(* that keep, drop, add, repeat and reorder, and one set of lease servers. *)
EXTENDS SourceTable

CONSTANTS A, B

Says(automatic, allow, useDhcp, servers) ==
    [automatic |-> automatic, allow |-> allow, useDhcp |-> useDhcp,
     servers |-> servers]

MCConfigs ==
    {Says(TRUE, FALSE, TRUE, << >>),
     Says(TRUE, TRUE, TRUE, << >>),
     Says(FALSE, TRUE, TRUE, << >>),
     Says(TRUE, FALSE, FALSE, <<SpecOf(B, FALSE)>>),
     Says(TRUE, FALSE, FALSE, <<SpecOf(B, FALSE), SpecOf(B, FALSE)>>),
     Says(TRUE, TRUE, FALSE, <<SpecOf(B, FALSE), SpecOf(A, TRUE)>>)}
MCOffers == {<< >>, <<B>>}
MCFallback == <<SpecOf(A, FALSE), SpecOf(B, FALSE)>>
=============================================================================
