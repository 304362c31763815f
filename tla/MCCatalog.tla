----------------------------- MODULE MCCatalog ------------------------------
(* Two parts that share nothing, checked in one run: a behaviour is one of the *)
(* listings or one of the values of a product's attributes.                    *)
(*                                                                            *)
(* Catalog with three products in a category and its subcategory: names and   *)
(* featured flags in every combination, so that sort keys tie, and variants   *)
(* that meet some filters one by one and others only together.                *)
EXTENDS Catalog, AttributeValues

VARIABLE part

MCParent == <<Root, 1>>

Either(a, b) == {[colour |-> {"red"}, width |-> a], [colour |-> {"black"}, width |-> b]}
Both(a) == {[colour |-> {"red", "black"}, width |-> a]}

MCStocks == {Either(<<1, 1>>, <<2, 2>>), Both(NoWidth)}

Goods == <<Either(<<1, 1>>, <<2, 2>>), Either(NoWidth, <<1, 1>>), Both(<<1, 2>>)>>

MCCatalogues ==
    {[p \in Products |->
        [id |-> p, category |-> IF p = 2 THEN 2 ELSE 1, active |-> TRUE, name |-> n[p],
         rank |-> n[p] % 2, featured |-> f[p], created |-> IF p = 1 THEN 1 ELSE 2,
         updated |-> 0, variants |-> Goods[p]]] :
     n \in {<<1, 1, 1>>, <<2, 1, 1>>, <<1, 2, 1>>, <<2, 2, 1>>},
     f \in {<<0, 0, 0>>, <<0, 0, 1>>, <<0, 1, 1>>}}

MCWalks ==
    {[public |-> TRUE, category |-> 1, colour |-> {"red"}, width |-> NoWidth],
     [public |-> TRUE, category |-> 0, colour |-> {}, width |-> NoWidth],
     [public |-> FALSE, category |-> 0, colour |-> {}, width |-> NoWidth]}

-----------------------------------------------------------------------------
\* Every data type, beside a text attribute of the whole product.
MCDataTypes ==
    {[spec |-> t, note |-> "text"] :
        t \in {"text", "number", "number_range", "boolean", "enum", "color", "multi_enum"}}

Bind(level, required) == [level |-> level, required |-> required]
MCBindings ==
    [spec |-> {Bind("product", FALSE), Bind("variant", FALSE), Bind("variant", TRUE)},
     note |-> {Bind("product", TRUE)}]

\* No unit, letters, another sign, and one that reads as the end of a range.
MCUnitForms ==
    [none |-> [plain |-> TRUE, bound |-> <<>>], mm |-> [plain |-> TRUE, bound |-> <<>>],
     percent |-> [plain |-> FALSE, bound |-> <<>>], per |-> [plain |-> FALSE, bound |-> <<2>>]]

MCUnits == [t \in DOMAIN Shape |-> IF t = "number" THEN {"none", "percent"}
                                   ELSE IF t = "number_range" THEN {"mm", "percent", "per"} ELSE {"none"}]

MCNumbers == {-1, 1, 2, 3}

Form(trimmed, slug, bare, compact, parts) ==
    [trim |-> trimmed, collapse |-> trimmed, lower |-> slug, slug |-> slug, bare |-> bare,
     compact |-> compact, parts |-> parts, long |-> trimmed = "essay"]

MCForms ==
    [w \in {"20", "20 inch", "av", "A/V", "av, 20", "zz", " zz", "essay", "Yes", "No", ""} |->
        CASE w = "20 inch" -> Form(w, "20-inch", "20", "20inch", <<w>>)
          [] w = "A/V"     -> Form(w, "a-v", "a-v", "av", <<w>>)
          [] w = "av, 20"  -> Form(w, "av-20", "av-20", "av20", <<"av", "20">>)
          [] w = " zz"     -> Form("zz", "zz", "zz", "zz", <<"zz">>)
          [] w = "Yes"     -> Form(w, "yes", "yes", "yes", <<w>>)
          [] w = "No"      -> Form(w, "no", "no", "no", <<w>>)
          [] OTHER         -> Form(w, w, w, w, IF w = "" THEN <<>> ELSE <<w>>)]

Value(shape, of) == [shape |-> shape, of |-> of]
Options == {Value("string", <<w>>) : w \in {"20", "av", "zz"}} \cup {Value("array", <<"20">>)}

MCJson ==
    LET json == [text |-> {Value("string", <<w>>) : w \in {"zz", " zz", "essay", ""}},
                 number |-> {Value("number", <<n>>) : n \in {-1, 2}} \cup {Value("string", <<"20">>)},
                 number_range |-> {Value("object", r) : r \in {<<1, 1>>, <<1, 3>>, <<-1, 2>>, <<2, 1>>}},
                 boolean |-> {Value("boolean", <<b>>) : b \in BOOLEAN},
                 enum |-> Options, color |-> Options,
                 multi_enum |-> {Value("array", s) : s \in {<<>>, <<"av", "20">>, <<"20", "20">>, <<"zz">>}}]
    IN [t \in DOMAIN json |-> json[t] \cup {Null}]

Cell(numbers, unit_, words) == [numbers |-> numbers, unit |-> unit_, words |-> words]
MCCells ==
    {Cell(n, u, <<"20">>) : n \in {<<-1>>, <<1>>, <<3>>, <<1, 2>>, <<2, 1>>, <<-1, 2>>}, u \in DOMAIN MCUnitForms}
        \cup {Cell(<<>>, "none", ws) :
               ws \in {<<"20">>, <<"20 inch">>, <<"A/V">>, <<"av, 20">>, <<"20", "av">>, <<"zz">>, <<"Yes">>, <<"essay">>}}

MCFilters ==
    LET bounds == {b \in MCNumbers \X MCNumbers : b[1] <= b[2]}
        chosen == {<<"20">>, <<"av">>, <<"20", "av">>}
    IN [text |-> {<<"zz">>}, number |-> bounds, number_range |-> bounds,
        boolean |-> {<<b>> : b \in BOOLEAN}, enum |-> chosen, color |-> chosen, multi_enum |-> chosen]

PartsInit ==
    /\ Init /\ ValuesInit
    /\ \/ /\ part = "listings"
          /\ type.spec = "text"
       \/ /\ part = "values"
          /\ product = CHOOSE c \in Catalogues : TRUE
          /\ walk.query = CHOOSE q \in Walks : TRUE
          /\ walk.sort = "name"

PartsNext ==
    \/ part = "listings" /\ Next /\ UNCHANGED <<part, valueVars>>
    \/ part = "values" /\ ValuesNext /\ UNCHANGED <<part, vars>>

PartsSpec == PartsInit /\ [][PartsNext]_<<vars, part, valueVars>>
=============================================================================
