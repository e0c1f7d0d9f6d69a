----------------------------- MODULE MCCatalog -----------------------------
(***************************************************************************)
(* A small catalog: two sets, two codes, one model.  The second edition of *)
(* the file renames a card, lists a code twice and moves one to another    *)
(* set, so that a refresh from it has something to remove.                 *)
(***************************************************************************)
EXTENDS CatalogImport, TLC

CONSTANTS n1, n2, a, b, t1, t2, m1

MCCommand(kind, name, refresh, rows, char) ==
    [kind |-> kind, name |-> name, refresh |-> refresh, rows |-> rows, char |-> char]
MCRow(name, code, text) == [name |-> name, code |-> code, text |-> text]
MCCards(codes) == [r \in DOMAIN codes |-> MCRow(None, codes[r], t1)]

FirstEdition == <<MCRow(n1, a, t1), MCRow(n1, b, t1)>>
SecondEdition == <<MCRow(n1, a, t1), MCRow(n2, b, t1), MCRow(n1, a, t2)>>

MCCommands == {
    MCCommand("process-set", None, FALSE, FirstEdition, None),
    MCCommand("process-set", n1, TRUE, SecondEdition, None),
    MCCommand("process-set", n2, TRUE, FirstEdition, None),
    MCCommand("set-price-sources", n1, FALSE, MCCards(<<a, b>>), None),
    MCCommand("model-import", n1, FALSE, MCCards(<<a>>), m1),
    MCCommand("model-import", None, FALSE, MCCards(<<a>>), m1),
    MCCommand("model-import", None, FALSE, <<>>, m1)}

JobSymmetry == Permutations(Jobs)
=============================================================================
