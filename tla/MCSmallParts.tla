---------------------------- MODULE MCSmallParts ----------------------------
(* Three parts that share nothing, checked in one run: a behaviour is one of   *)
(* the rate limiter, of the importer's grouping of a sheet or of a price.      *)
EXTENDS RateLimit, SheetGroups, Money, TLC

Line(g, s, i, l, e) == [group |-> g, sku |-> s, item |-> i, line |-> l, severity |-> e]

\* Two products; SKUs that collide as entered and as renamed; an item number that
\* is the SKU of the other product; a row with a warning and one with an error.
MCParsedRows ==
    {Line("g", <<"A">>, NoItem, l, "none") : l \in 1..2}
        \cup {Line("g", <<"A", 2>>, NoItem, 1, "none"), Line("h", <<"B">>, NoItem, 1, "none"),
              Line("g", <<"A">>, "B", 1, "warning"), Line("g", <<"A">>, NoItem, 1, "error")}

\* Until the first commit it does not matter which row is which: there, rows are only
\* appended.
SheetStep == SheetNext /\ (commits' = 0 => lines' = [r \in 1..newest' |-> r])

\* MaxInt is 1023: whole parts around 9 and 10 are at the limit.
MCTexts ==
    {[neg |-> n, whole |-> w, frac |-> f] :
        n \in BOOLEAN, w \in {0, 1, 8, 9, 10, 11},
        f \in {<<>>, <<0>>, <<5>>, <<0, 0>>, <<0, 5>>, <<5, 0>>, <<9, 9>>, <<0, 0, 5>>}}

\* Thousandths, and thirds of a hundredth.
MCFractions ==
    {[num |-> n, den |-> 1000] : n \in -20..20 \cup 985..1010 \cup 9985..10010 \cup 10220..10240}
        \cup {[num |-> n, den |-> 300] : n \in -5..5}

PartsInit == RateInit /\ SheetInit /\ MoneyInit
PartsNext ==
    \/ SheetInit /\ MoneyInit /\ RateNext /\ UNCHANGED <<sheetVars, moneyVars>>
    \/ RateInit /\ MoneyInit /\ SheetStep /\ UNCHANGED <<rateVars, moneyVars>>
    \/ RateInit /\ SheetInit /\ MoneyNext /\ UNCHANGED <<rateVars, sheetVars>>
PartsSpec == PartsInit /\ [][PartsNext]_<<rateVars, sheetVars, moneyVars>>

Symmetry == Permutations(Clients) \cup Permutations(Requests)
=============================================================================
