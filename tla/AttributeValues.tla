-------------------------- MODULE AttributeValues ---------------------------
(***************************************************************************)
(* The forms an attribute value takes: in the JSON of the admin API, in a  *)
(* cell of a workbook, in the rows of product_attribute_values, in the     *)
(* attrs projections that listings filter on, and on the page              *)
(* (internal/service/schema.go, the attribute part of products.go,         *)
(* internal/importer/cells.go, internal/domain/attribute.go).              *)
(*                                                                         *)
(* One product of one category is saved while the attributes of the        *)
(* category and their options are edited.  A step is a whole request: what *)
(* requests do to each other is in Products and Registry.                  *)
(*                                                                         *)
(* JSON is a record of its shape and its contents, one form for all data   *)
(* types.  A text is a model value's string; what trimming, slugs and so   *)
(* on make of it is given by Forms, and what a cell's patterns make of a   *)
(* unit by UnitForms.                                                      *)
(***************************************************************************)
EXTENDS Integers, Sequences, FiniteSets, SequencesExt

CONSTANTS
    Attributes,
    DataTypes,  \* the data types the attributes may have: functions
    Places,     \* Whole, and the product's variants
    Whole,      \* values with variant_id NULL
    Bindings,   \* how the category may bind each attribute: level, required
    Unbound,
    Ids,        \* bound: ids of options, used again when nothing refers to them
    Tokens,     \* the values of options, and
    Labels,     \* what they are called
    Forms,      \* of every text: trim, collapse, lower, slug, bare, compact, parts,
                \* and whether it is long: over maxTextValue once it is trimmed
    UnitForms,  \* of every unit: plain if it is none, or letters and quotes; bound,
                \* the number that it starts with as a second one ("/ 100 km")
    Units,      \* bound: the units given to attributes of each type
    Json,       \* bound: what clients send
    Cells,      \* bound: what workbooks contain
    Filters,    \* bound: what listings are filtered by
    Numbers     \* bound: of numbers

VARIABLES
    type,       \* attributes.data_type, which never changes
    options,    \* attribute_options in their order
    unit,       \* attributes.unit
    binding,    \* category_attributes
    rows,       \* product_attribute_values
    attrs,      \* the attrs projections
    published,  \* the product's status is active
    raised      \* history: and more is required of it than when it was saved

valueVars == <<type, options, unit, binding, rows, attrs, published, raised>>

None == 0
Null == [shape |-> "null", of |-> <<>>]

Shape ==
    [text |-> "string", number |-> "number", number_range |-> "object", boolean |-> "boolean",
     enum |-> "string", color |-> "string", multi_enum |-> "array"]

\* What JSON of each shape contains.
Contents ==
    [null |-> {<<>>}, string |-> {<<w>> : w \in DOMAIN Forms}, number |-> {<<n>> : n \in Numbers},
     object |-> Numbers \X Numbers, boolean |-> {<<b>> : b \in BOOLEAN},
     array |-> Seq(DOMAIN Forms)]

\* What a filter contains: bounds of a number, options, a boolean or a text.
FilterShape == [t \in DOMAIN Shape |-> IF t = "number" THEN "object"
                                       ELSE IF t \in {"enum", "color"} THEN "array" ELSE Shape[t]]

(* A product has a variant.  Trimming and collapsing a text twice is the same as
   once, and both leave "" only of a blank one.  A cell has at most two numbers, and
   no words if it is blank. *)
ASSUME ValuesAssumption ==
    /\ DataTypes \subseteq [Attributes -> DOMAIN Shape]
    /\ Whole \in Places /\ Places # {Whole}
    /\ \A a \in Attributes : /\ Unbound \notin Bindings[a]
                            /\ Bindings[a] \subseteq [level : {"product", "variant"}, required : BOOLEAN]
    /\ Ids \subseteq Nat \ {None}
    /\ Tokens \cup Labels \cup {"Yes", "No"} \subseteq DOMAIN Forms
    /\ Forms["Yes"].lower = "yes" /\ Forms["No"].lower = "no"
    /\ \A w \in DOMAIN Forms :
         /\ {Forms[w].trim, Forms[w].collapse} \subseteq DOMAIN Forms
         /\ Forms[Forms[w].trim].trim = Forms[w].trim /\ Forms[Forms[w].trim].long = Forms[w].long
         /\ Forms[Forms[w].collapse].trim = "" <=> Forms[w].trim = ""
         /\ Forms[w].parts \in Seq(DOMAIN Forms) /\ Forms[w].long \in BOOLEAN
    /\ Numbers \subseteq Int
    /\ \A u \in DOMAIN UnitForms :
         /\ UnitForms[u].bound \in Seq(Numbers) /\ Len(UnitForms[u].bound) <= 1
         /\ UnitForms[u].plain \in BOOLEAN /\ (UnitForms[u].plain => UnitForms[u].bound = <<>>)
    /\ \A t \in DOMAIN Shape : Units[t] \subseteq DOMAIN UnitForms
    /\ \A t \in DOMAIN Shape : \A json \in Json[t] :
         /\ json = [shape |-> json.shape, of |-> json.of]
         /\ json.shape \in DOMAIN Contents /\ json.of \in Contents[json.shape]
    /\ \A cell \in Cells :
         /\ cell.numbers \in Seq(Numbers) /\ Len(cell.numbers) <= 2 /\ cell.unit \in DOMAIN UnitForms
         /\ cell.words \in Seq(DOMAIN Forms)
         /\ \A w \in ToSet(cell.words) : Forms[w].trim # ""
    /\ \A t \in DOMAIN Shape : Filters[t] \subseteq Contents[FilterShape[t]]

UsesOptions(a) == type[a] \in {"enum", "multi_enum", "color"}

\* optionByValue: the option, if there is one.
OptionByValue(a, value) == {o \in ToSet(options[a]) : o.value = value}

\* NewAttributeValue.
NewAttributeValue(a, of) ==
    CASE type[a] = "number_range" -> of[1] <= of[2]
      [] type[a] = "text" -> Forms[of[1]].trim # ""
      [] OTHER -> Len(of) > 0

\* decodeValue accepts it: options of the attribute, a text of at most maxTextValue
\* characters ...
Decodes(a, json) ==
    /\ json.shape = Shape[type[a]]
    /\ UsesOptions(a) => \A s \in ToSet(json.of) : OptionByValue(a, s) # {}
    /\ type[a] = "text" => ~ Forms[json.of[1]].long
    /\ NewAttributeValue(a, json.of)

\* ... as this value.
DecodeValue(a, place, json) ==
    [attr |-> a, place |-> place,
     inline |-> CASE type[a] = "text" -> <<Forms[json.of[1]].trim>>
                  [] UsesOptions(a) -> <<>>
                  [] OTHER -> json.of,
     options |-> IF UsesOptions(a) THEN {o.id : o \in UNION {OptionByValue(a, s) : s \in ToSet(json.of)}}
                 ELSE {}]

\* The options of s with these ids, in their order.
OptionsOf(s, ids) ==
    LET at == {i \in DOMAIN s : s[i].id \in ids}
    IN [n \in 1..Cardinality(at) |-> s[CHOOSE i \in at : Cardinality({j \in at : j < i}) = n - 1]]

\* apiValue: the options in their order.
ApiValue(a, v) ==
    LET named == OptionsOf(options[a], v.options)
    IN IF UsesOptions(a) /\ type[a] # "multi_enum" /\ Len(named) # 1 THEN Null
       ELSE [shape |-> Shape[type[a]],
             of |-> IF UsesOptions(a) THEN [i \in DOMAIN named |-> named[i].value] ELSE v.inline]

\* displayValue: numbers and their unit, or words that are joined with commas.
DisplayValue(a, v) ==
    LET named == OptionsOf(options[a], v.options)
        Numbered(n) == [numbers |-> n, unit |-> unit[a], words |-> <<>>]
        Worded(w) == [numbers |-> <<>>, unit |-> unit[a], words |-> w]  \* which no unit follows
    IN CASE type[a] = "number" -> Numbered(v.inline)
         [] type[a] = "number_range" ->
                Numbered(IF v.inline[1] = v.inline[2] THEN <<v.inline[1]>> ELSE v.inline)
         [] type[a] = "boolean" -> Worded(IF v.inline[1] THEN <<"Yes">> ELSE <<"No">>)
         [] type[a] = "text" -> Worded(v.inline)
         [] OTHER -> Worded([i \in DOMAIN named |-> named[i].label])

-----------------------------------------------------------------------------
Row(v, option) == [attr |-> v.attr, place |-> v.place, inline |-> v.inline, option |-> option]

\* Mutant of InsertValues: only the first of several options gets a row.
InsertValuesOne(values) ==
    UNION {{Row(v, o) : o \in IF v.options = {} THEN {None} ELSE {CHOOSE x \in v.options : TRUE}} : v \in values}

\* insertValues: a row for each option.
InsertValues(values) ==
    UNION {{Row(v, o) : o \in IF v.options = {} THEN {None} ELSE v.options} : v \in values}

\* store.AttributeValue.
AttributeValue(r) ==
    [attr |-> r.attr, place |-> r.place, inline |-> r.inline,
     options |-> IF r.option = None THEN {} ELSE {r.option}]

\* mergeValues: one value of an attribute at a place.
MergeValues(values) ==
    {[v EXCEPT !.options = UNION {w.options : w \in {x \in values : x.attr = v.attr /\ x.place = v.place}}] :
     v \in values}

\* categorySchema.projection: what is known of the bound attributes at a place.
Projection(values, place, schema) ==
    LET here == {v \in values : v.place = place /\ schema[v.attr] # Unbound}
    IN [a \in {v.attr : v \in here} |-> ApiValue(a, CHOOSE v \in here : v.attr = a)]

\* loadProductView and rebuildProjections: the values of the product and its variants.
Load(table) == MergeValues({AttributeValue(r) : r \in table})
View == Load(rows)

\* categorySchema.views skips those that are not bound.
Shown == {v \in View : binding[v.attr] # Unbound}

\* rawValues: what is shown at a place, in JSON.
RawValues(shown, p) ==
    LET here == {v \in shown : v.place = p}
    IN [a \in Attributes |-> IF \E v \in here : v.attr = a
                             THEN ApiValue(a, CHOOSE v \in here : v.attr = a) ELSE Null]

\* ToInput: the document that the product is read as.
ToInput == LET shown == Shown IN [p \in Places |-> RawValues(shown, p)]

AtLevel(a) == IF binding[a].level = "variant" THEN Places \ {Whole} ELSE {Whole}

\* validateDocument: attributes of the category at their level, with values of
\* their type, and, to be published, all that are required.
Accepts(doc, publishing) ==
    /\ \A p \in Places, a \in Attributes :
         doc[p][a] # Null => binding[a] # Unbound /\ p \in AtLevel(a) /\ Decodes(a, doc[p][a])
    /\ publishing =>
         \A a \in Attributes : binding[a] # Unbound /\ binding[a].required =>
             \A p \in AtLevel(a) : doc[p][a] # Null

\* The values of a document.
Values(doc) ==
    {DecodeValue(pa[2], pa[1], doc[pa[1]][pa[2]]) :
       pa \in {x \in Places \X Attributes : doc[x[1]][x[2]] # Null}}

\* UpdateInTx and syncVariants.  A client changes one value of what it has read, and
\* its status.
Save ==
    LET read == ToInput IN
    \E p \in Places, a \in Attributes : \E json \in Json[type[a]] :
        LET doc == [read EXCEPT ![p][a] = json]
            values == Values(doc)
        IN \E publishing \in BOOLEAN :
             /\ Accepts(doc, publishing)
             /\ rows' = InsertValues(values)
             /\ attrs' = [q \in Places |-> Projection(values, q, binding)]
             /\ published' = publishing /\ raised' = FALSE
             /\ UNCHANGED <<type, options, unit, binding>>

-----------------------------------------------------------------------------
HasValues(a) == \E r \in rows : r.attr = a

\* BindAttribute: the level stays while there are values; nobody asks whether those
\* of active products are there that are now required.
BindAttribute(a) ==
    /\ \E b \in Bindings[a] :
         /\ binding[a] # Unbound /\ HasValues(a) => binding[a].level = b.level
         /\ binding' = [binding EXCEPT ![a] = b]
         /\ raised' = (raised \/ (published /\ b.required /\ b # binding[a]))
    /\ UNCHANGED <<type, options, unit, rows, attrs, published>>

\* UnbindAttribute: its values go, and rebuildProjections.
UnbindAttribute(a) ==
    /\ binding[a] # Unbound
    /\ binding' = [binding EXCEPT ![a] = Unbound]
    /\ rows' = {r \in rows : r.attr # a}
    /\ attrs' = IF ~ HasValues(a) THEN attrs
                ELSE [p \in Places |-> Projection(Load(rows'), p, binding')]
    /\ UNCHANGED <<type, options, unit, published, raised>>

\* UpdateAttribute: of what a value is made of, only the unit can be changed.
UpdateAttribute(a) ==
    /\ \E u \in Units[type[a]] : unit' = [unit EXCEPT ![a] = u]
    /\ UNCHANGED <<type, options, binding, rows, attrs, published, raised>>

Option(id, value, label) == [id |-> id, value |-> value, label |-> label]

\* CreateOption, at the end or where its position puts it.
CreateOption(a) ==
    /\ UsesOptions(a)
    /\ \E id \in Ids, value \in Tokens, label \in Labels, i \in 1..(Len(options[a]) + 1) :
         /\ \A o \in ToSet(options[a]) : o.id # id /\ o.value # value
         /\ \A other \in Ids : other < id => \E o \in ToSet(options[a]) : o.id = other
         /\ options' = [options EXCEPT ![a] = InsertAt(@, i, Option(id, value, label))]
    /\ UNCHANGED <<type, unit, binding, rows, attrs, published, raised>>

\* UpdateOption: label and position; the value cannot be changed.
UpdateOption(a) ==
    /\ \E i \in DOMAIN options[a], label \in Labels, j \in DOMAIN options[a] :
         options' = [options EXCEPT ![a] =
                       InsertAt(RemoveAt(@, i), j, [options[a][i] EXCEPT !.label = label])]
    /\ UNCHANGED <<type, unit, binding, rows, attrs, published, raised>>

\* DeleteOption: rows REFERENCE attribute_options ON DELETE RESTRICT.
DeleteOption(a) ==
    /\ \E i \in DOMAIN options[a] :
         /\ \A r \in rows : ~ (r.attr = a /\ r.option = options[a][i].id)
         /\ options' = [options EXCEPT ![a] = RemoveAt(@, i)]
    /\ UNCHANGED <<type, unit, binding, rows, attrs, published, raised>>

ValuesInit ==
    /\ type \in DataTypes
    /\ unit \in {u \in [Attributes -> DOMAIN UnitForms] : \A a \in Attributes : u[a] \in Units[type[a]]}
    /\ options = [a \in Attributes |-> <<>>]
    /\ binding = [a \in Attributes |-> Unbound]
    /\ rows = {}
    /\ attrs = [p \in Places |-> <<>>]
    /\ published = FALSE /\ raised = FALSE

ValuesNext ==
    \/ Save
    \/ \E a \in Attributes :
         \/ BindAttribute(a) \/ UnbindAttribute(a) \/ UpdateAttribute(a)
         \/ CreateOption(a) \/ UpdateOption(a) \/ DeleteOption(a)

ValuesSpec == ValuesInit /\ [][ValuesNext]_valueVars

-----------------------------------------------------------------------------
\* boundConds: the value's high end against the minimum, its low end against the
\* maximum; a single number is a minimum and a maximum (filterPath).
InBounds(of, min, max) == of[Len(of)] >= min /\ of[1] <= max

\* filterPath accepts the filter ...
Filterable(a, f) ==
    CASE UsesOptions(a) -> \A s \in ToSet(f) : OptionByValue(a, s) # {}
      [] type[a] \in {"number", "number_range"} -> f[1] <= f[2]
      [] OTHER -> TRUE

\* ... and a key with this value meets it; lax mode looks into arrays.
FilterPath(a, f, json) ==
    IF type[a] \in {"number", "number_range"} THEN InBounds(json.of, f[1], f[2])
    ELSE ToSet(json.of) \cap ToSet(f) # {}

\* p.attrs || v.attrs: the variant's keys win.
Combined(p) == [a \in DOMAIN attrs[Whole] \cup DOMAIN attrs[p] |->
                  IF a \in DOMAIN attrs[p] THEN attrs[p][a] ELSE attrs[Whole][a]]

ListedUnder(a, f) ==
    \E p \in Places \ {Whole} : a \in DOMAIN Combined(p) /\ FilterPath(a, f, Combined(p)[a])

\* What the page shows and a person would look for: an option, a number between
\* the bounds, a text.
Answers(a, v, f) ==
    \/ /\ type[a] \in {"number", "number_range"}
       /\ \E x \in Numbers : /\ f[1] <= x /\ x <= f[2]
                                  /\ v.inline[1] <= x /\ x <= v.inline[Len(v.inline)]
    \/ UsesOptions(a) /\ \E o \in ToSet(options[a]) : o.id \in v.options /\ o.value \in ToSet(f)
    \/ type[a] \in {"text", "boolean"} /\ v.inline = f

-----------------------------------------------------------------------------
\* The first of the options of a that are in S, if there is one.
FirstOption(a, S) ==
    {options[a][i] : i \in {j \in DOMAIN options[a] : /\ options[a][j] \in S
                                                      /\ \A k \in 1..(j - 1) : options[a][k] \notin S}}

\* Mutant of MatchOption: only the values of options are looked at.
MatchOptionExact(a, cell) == FirstOption(a, OptionByValue(a, cell))

\* matchOption: the first option of that value, slug or label; one whose value is
\* the number in front of "inch"; or the only one with the same letters and digits.
MatchOption(a, cell) ==
    LET is == Forms[cell]
        all == ToSet(options[a])
        named == {o \in all : o.value = cell \/ is.slug \in {Forms[o.value].slug, Forms[o.label].slug}}
        inches == {o \in all : is.bare # is.slug /\ Forms[o.value].slug = is.bare}
        loose == {o \in all : is.compact \in {Forms[o.value].compact, Forms[o.label].compact}}
    IN IF named # {} THEN FirstOption(a, named)
       ELSE IF inches # {} THEN FirstOption(a, inches)
       ELSE {o \in loose : loose = {o}}

\* parseAttributeCell: what a word is ...
WordMeans(a, word) ==
    CASE type[a] = "text" -> {<<Forms[word].collapse>>}
      [] type[a] = "boolean" -> {<<TRUE>> : yes \in {"yes", "y", "true", "1", "x"} \cap {Forms[word].lower}}
                                  \cup {<<FALSE>> : no \in {"no", "n", "false", "0"} \cap {Forms[word].lower}}
      [] OTHER -> {<<o.value>> : o \in MatchOption(a, word)}

\* ... and several, if each of their parts is an option, ...
PartsOf(words) == FlattenSeq([i \in DOMAIN words |-> Forms[words[i]].parts])

PartsMean(a, parts) ==
    IF parts # <<>> /\ \A i \in DOMAIN parts : MatchOption(a, parts[i]) # {}
    THEN {[i \in DOMAIN parts |-> (CHOOSE o \in MatchOption(a, parts[i]) : TRUE).value]}
    ELSE {}

\* ... and a cell, unless it is not understood.  numberCell takes one number and a
\* plain unit, rangeCell two without a minus.  Only for multi_enum are words told
\* apart.
CellMeans(a, cell) ==
    LET n == cell.numbers
        u == UnitForms[cell.unit]
        range == n \o u.bound
    IN CASE type[a] = "number" -> IF Len(n) = 1 /\ u.plain THEN {n} ELSE {}
         [] type[a] = "number_range" ->
              IF Len(n) = 1 /\ u.plain THEN {<<n[1], n[1]>>}
              ELSE IF /\ Len(range) = 2 /\ (u.plain \/ u.bound # <<>>)
                      /\ 0 <= range[1] /\ range[1] <= range[2]
                   THEN {range} ELSE {}
         [] type[a] = "multi_enum" -> PartsMean(a, PartsOf(cell.words))
         [] OTHER -> IF Len(cell.words) = 1 THEN WordMeans(a, cell.words[1]) ELSE {}

\* parseAttributeCell: in JSON.
ParseAttributeCell(a, cell) == {[shape |-> Shape[type[a]], of |-> x] : x \in CellMeans(a, cell)}

-----------------------------------------------------------------------------
ValuesTypeOK ==
    /\ type \in DataTypes
    /\ options \in [Attributes -> Seq([id : Ids, value : Tokens, label : Labels])]
    /\ \A a \in Attributes : binding[a] \in Bindings[a] \cup {Unbound} /\ unit[a] \in Units[type[a]]
    /\ published \in BOOLEAN /\ raised \in BOOLEAN
    /\ \A r \in rows : r.attr \in Attributes /\ r.place \in Places /\ r.option \in Ids \cup {None}
    /\ \A p \in Places : DOMAIN attrs[p] \subseteq Attributes

Same(x, y) == x.shape = y.shape /\ ToSet(x.of) = ToSet(y.of) /\ (x.shape # "array" => x.of = y.of)

\* Saving the product as it was read is accepted, as active if it is, unless more has
\* come to be required since; and it changes neither the rows nor, but for the order
\* of options, the projections: nothing is dropped or invented although options come,
\* go and are renamed and attributes are bound anew.
SavedAsRead ==
    /\ LET read == ToInput
       IN Accepts(read, published /\ ~ raised) /\ InsertValues(Values(read)) = rows
    /\ LET view == View IN \A p \in Places :
         LET now == Projection(view, p, binding)
         IN DOMAIN now = DOMAIN attrs[p] /\ \A a \in DOMAIN now : Same(now[a], attrs[p][a])

\* A product is listed under a filter if and only if its page shows a value that
\* answers it.
FilterFindsWhatIsShown ==
    LET shown == Shown IN
    \A a \in Attributes : \A f \in Filters[type[a]] :
        Filterable(a, f) => (ListedUnder(a, f) <=> \E v \in shown : v.attr = a /\ Answers(a, v, f))

(* "The admin API's read format, its write format and the filter path all agree"
   (schema.go). *)
FormatsAgree == SavedAsRead /\ FilterFindsWhatIsShown

\* The words of a value are told apart in a cell: no other option has the slug of
\* the label, and neither it nor a text is changed by the parser; and its unit is not
\* the upper end of a range.
Legible(a, v) ==
    /\ \A o \in ToSet(options[a]) : o.id \in v.options =>
         /\ Forms[o.label].parts = <<o.label>>
         /\ \A p \in ToSet(options[a]) \ {o} : Forms[o.label].slug \notin {Forms[p.value].slug, Forms[p.label].slug}
    /\ type[a] = "text" => Forms[v.inline[1]].collapse = v.inline[1]
    /\ type[a] = "number_range" => UnitForms[unit[a]].bound = <<>> \/ v.inline[1] # v.inline[2]

\* The cell's patterns take it: a plain unit, and no minus in a range.
Readable(a, v) ==
    /\ type[a] \in {"number", "number_range"} => UnitForms[unit[a]].plain
    /\ type[a] = "number_range" => v.inline[1] = v.inline[2] \/ v.inline[1] >= 0

(* "Anything they cannot interpret becomes an issue for a person to review, never a
   guess" (cells.go): a cell that is the slug of several options is left to a
   person. *)
NeverAGuess ==
    \A a \in Attributes : \A cell \in {c \in Cells : Len(c.words) = 1} :
        LET w == cell.words[1]
            named == {o \in ToSet(options[a]) : Forms[w].slug \in {Forms[o.value].slug, Forms[o.label].slug}}
        IN type[a] \in {"enum", "color"} /\ (\E o, p \in named : o # p) => ParseAttributeCell(a, cell) = {}

(* A value that is typed into a workbook as the site displays it is imported as
   itself or, if it is a range below zero or its unit is not letters and quotes, left
   to a person ("forgiving about presentation and strict about meaning", "never a
   guess", cells.go), unless labels cannot be told apart, a text is not collapsed or
   a unit reads as the end of a range; and every cell that is understood is a value
   the product can be saved with, unless it is a text that is too long. *)
CellsReadBack ==
    /\ \A v \in Shown : Legible(v.attr, v) =>
         ParseAttributeCell(v.attr, DisplayValue(v.attr, v))
           = IF Readable(v.attr, v) THEN {ApiValue(v.attr, v)} ELSE {}
    /\ \A a \in Attributes : \A cell \in Cells : \A json \in ParseAttributeCell(a, cell) :
         Decodes(a, json) \/ (type[a] = "text" /\ Forms[json.of[1]].long)

(* "Limits mirrored from the product write path, so a problem surfaces during review
   rather than as a failed commit" (sheet.go): every cell that is understood is a
   value the product can be saved with. *)
UnderstoodIsSavable ==
    \A a \in Attributes : \A cell \in Cells : \A json \in ParseAttributeCell(a, cell) : Decodes(a, json)
=============================================================================
