------------------------------ MODULE MCExtraction ------------------------------
(***************************************************************************)
(* Small analyses for Extraction: every extraction mode, a short page, a   *)
(* page long enough to be cut twice, several documents, scanned pages, a   *)
(* KOSA table and a dense page.                                            *)
(***************************************************************************)
EXTENDS Extraction

Page(text, scan) == [text |-> text, scan |-> scan]

Source(mode, docs, rich, tables, dense) ==
    [mode |-> mode, docs |-> docs, rich |-> rich, tables |-> tables, dense |-> dense]

OnePage   == << <<Page(4, 0)>> >>
TwoDocs   == << <<Page(2, 0), Page(1, 1)>>, <<Page(0, 2)>> >>
ThreePage == << <<Page(1, 0), Page(4, 0), Page(1, 0)>> >>
Long      == << <<Page(2, 0), Page(1, 0)>>, <<Page(1, 0), Page(1, 0)>>, <<Page(2, 0)>> >>

MCSources ==
    {Source(mode, OnePage, rich, {}, {}) : mode \in {"single", "staged", "compact"}, rich \in BOOLEAN}
    \cup {Source("compact", TwoDocs, FALSE, {}, {}), Source("compact", Long, FALSE, {}, {}),
          Source("compact", ThreePage, TRUE, {<<1, 2>>}, {}),
          Source("compact", ThreePage, TRUE, {}, {<<1, 2>>})}

================================================================================
