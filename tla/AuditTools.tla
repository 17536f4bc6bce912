----------------------------- MODULE AuditTools -----------------------------
(***************************************************************************)
(* The deterministic checks an audit agent calls (src/doci/tools): pure    *)
(* functions of their arguments, so a behaviour is one call and its        *)
(* answer.  A money text is the sequence of the characters to_money keeps, *)
(* digits "d", commas and full stops (currency words and the sign are      *)
(* stripped before it looks at the separators); since it never changes a   *)
(* digit, what it reads is told by how many digits it takes as decimals.   *)
(* Dates are days, amounts whole units, and floating-point rounding is     *)
(* left out.                                                               *)
(***************************************************************************)
EXTENDS Integers, SequencesExt

CONSTANTS MaxMoneyText,   \* longest money text
          MaxDates,       \* longest chain of dates
          Days,           \* days a date text can give
          Today,          \* the day of the call
          Amounts,        \* subtotals and amounts
          MaxPages,       \* pages of the document under audit
          ItemKeys,       \* document types a page can be classified as
          None            \* unreadable, absent or null

ASSUME ToolAssumption ==
  /\ Days \subseteq Int /\ Amounts \subseteq Int /\ None \notin Int
  /\ Today \in Int
  /\ MaxMoneyText \in Nat

VARIABLES tool,   \* the call: its name and arguments
          answer  \* what it returned, None before

toolVars == <<tool, answer>>

Separators == {",", "."}
MoneyTexts == SeqOf({"d"} \union Separators, MaxMoneyText)
ReadDays == Days \union {None}
GivenOrNot(S) == {<<>>} \union {<<x>> : x \in S}   \* an argument with a default
PageRows == [no : (1..MaxPages) \union {None}, item : ItemKeys \union {None}]

ToolCalls ==
  [name : {"parse_money"}, text : MoneyTexts]
    \union [name : {"check_date_order"}, dates : SeqOf(ReadDays, MaxDates)]
    \union [name : {"invoice_age"}, invoice : ReadDays,
              ref : GivenOrNot(ReadDays), max : Days]
    \union [name : {"compare_amount"}, a : Amounts, b : Amounts]
    \union [name : {"check_vat"}, subtotal : Amounts, rate : {0, 5, 8, 10}, off : -1..1]
    \union [name : {"find_document"}, pages : SeqOf(PageRows, MaxPages), item : ItemKeys]

ToolInit == tool \in ToolCalls /\ answer = None
-----------------------------------------------------------------------------
(* Money *)

CharsOf(text, c) == {i \in DOMAIN text : text[i] = c}
Uses(text, c) == CharsOf(text, c) # {}
RightOf(text, c) == Len(text) - Max(CharsOf(text, c))

\* Mutant: the first group may have any length.
GroupedAnyHead(text, c) ==
  LET at == CharsOf(text, c)
  IN  /\ at # {}
      /\ \A i \in at : i + 3 <= Len(text) /\ {i + 1, i + 2, i + 3} \intersect at = {}
                         /\ i + 4 \in at \union {Len(text) + 1}

\* "d.ddd.ddd": at most three characters, then groups of exactly three.
Grouped(text, c) ==
  LET at == CharsOf(text, c)
  IN  /\ at # {}
      /\ Min(at) <= 4
      /\ \A i \in at : i + 3 <= Len(text) /\ {i + 1, i + 2, i + 3} \intersect at = {}
                         /\ i + 4 \in at \union {Len(text) + 1}

\* float() of what is left with "point" for its separator: at least one digit
\* and at most one point; how many digits follow it.
Float(text, point) ==
  IF ~ Uses(text, "d") \/ Cardinality(CharsOf(text, point)) > 1 THEN None
  ELSE Cardinality({i \in CharsOf(text, "d") : \E j \in CharsOf(text, point) : j < i})

\* With both separators the last one is the decimal point, and the others go.
ToMoney(text) ==
  IF text = <<>> THEN None
  ELSE IF Uses(text, ",") /\ Uses(text, ".")
    THEN IF RightOf(text, ",") < RightOf(text, ".")
           THEN Float(text, ",") ELSE Float(text, ".")
  ELSE IF Uses(text, ",")
    THEN IF Grouped(text, ",") THEN 0 ELSE Float(text, ",")
  ELSE IF Grouped(text, ".") THEN 0 ELSE Float(text, ".")

ParseMoney ==
  /\ tool.name = "parse_money"
  /\ answer' = [ok |-> ToMoney(tool.text) # None, decimals |-> ToMoney(tool.text)]
-----------------------------------------------------------------------------
(* Dates *)

\* The places of the dates that could be read, and each next to the following
\* one of them: zip(parsed, parsed[1:]).
Parsed(dates) == {i \in DOMAIN dates : dates[i] # None}
Neighbours(places) ==
  {p \in places \X places : p[1] < p[2] /\ ~ \E k \in places : p[1] < k /\ k < p[2]}

OutOfOrder(dates, pairs) == {p \in pairs : dates[p[2]] < dates[p[1]]}

\* Mutant: neighbours of the list as given are compared.
CheckNeighbours ==
  /\ tool.name = "check_date_order"
  /\ LET read == Parsed(tool.dates)
     IN  answer' = [ok |-> TRUE,
                    violations |-> OutOfOrder(tool.dates,
                                     {p \in read \X read : p[2] = p[1] + 1})]

CheckDateOrder ==
  /\ tool.name = "check_date_order"
  /\ answer' = [ok |-> TRUE,
                violations |-> OutOfOrder(tool.dates, Neighbours(Parsed(tool.dates)))]

InvoiceAge ==
  /\ tool.name = "invoice_age"
  /\ LET ref == IF tool.ref = <<>> THEN Today ELSE tool.ref[1]
     IN  answer' = IF None \in {tool.invoice, ref} THEN [ok |-> FALSE]
                   ELSE [ok |-> TRUE,
                         future_dated |-> ref - tool.invoice < 0,
                         over_max |-> ref - tool.invoice > tool.max]
-----------------------------------------------------------------------------
(* Amounts: the smaller of 1% of the larger one and 100000; VAT within 0.5% *)

Abs(n) == IF n < 0 THEN -n ELSE n
Larger(a, b) == IF a > b THEN a ELSE b

CompareAmount ==
  /\ tool.name = "compare_amount"
  /\ LET diff == Abs(tool.a - tool.b)
         largest == Larger(Abs(tool.a), Abs(tool.b))
     IN  answer' = [ok |-> TRUE, match |-> diff * 100 <= largest /\ diff <= 100000]

\* A hundred times the expected VAT, and the whole amount nearest to it.
ExpectedVat(c) == c.subtotal * c.rate
RoundedVat(c) == (ExpectedVat(c) + 50) \div 100
GivenVat(c) == RoundedVat(c) + c.off

\* Mutant: half a hundredth of a unit, not half a per cent of the VAT.
CheckVatAbsolute ==
  /\ tool.name = "check_vat"
  /\ LET diff == Abs(GivenVat(tool) * 100 - ExpectedVat(tool))
     IN  answer' = [ok |-> TRUE, match |-> diff * 200 <= 100]

CheckVat ==
  /\ tool.name = "check_vat"
  /\ LET diff == Abs(GivenVat(tool) * 100 - ExpectedVat(tool))
     IN  answer' = [ok |-> TRUE,
                    match |-> diff * 200 <= Larger(ExpectedVat(tool), 100)]
-----------------------------------------------------------------------------
(* Documents: pages in order, some without a number or a type *)

PagesOf(call) == {i \in DOMAIN call.pages : call.pages[i].item = call.item}
NumbersOf(call) == {call.pages[i].no : i \in PagesOf(call)} \ {None}

FindDocument ==
  /\ tool.name = "find_document"
  /\ answer' = [ok |-> TRUE,
                present |-> PagesOf(tool) # {},
                span_pages |->
                  IF NumbersOf(tool) = {} THEN {}
                  ELSE {i \in DOMAIN tool.pages :
                          /\ tool.pages[i].no # None
                          /\ Min(NumbersOf(tool)) <= tool.pages[i].no
                          /\ tool.pages[i].no <= Max(NumbersOf(tool))}]
-----------------------------------------------------------------------------
ToolNext ==
  /\ answer = None
  /\ UNCHANGED tool
  /\ ParseMoney \/ CheckDateOrder \/ InvoiceAge \/ CompareAmount \/ CheckVat \/ FindDocument

ToolSpec == ToolInit /\ [][ToolNext]_toolVars
-----------------------------------------------------------------------------
(* Properties *)

ToolTypeOK ==
  /\ tool \in ToolCalls
  /\ answer # None => answer.ok \in BOOLEAN

Answered(name) == tool.name = name /\ answer # None

\* What a text says in a locale that groups with "group" and points with
\* "point": digits in one run or in groups of three, then perhaps decimals.
Reading(text, group, point) ==
  LET cut == IF Uses(text, point) THEN Min(CharsOf(text, point)) - 1 ELSE Len(text)
      fourth == {i \in 1..cut : (cut - i + 1) % 4 = 0}
  IN  IF /\ cut >= 1 /\ text[1] = "d"
         /\ CharsOf(text, group) \in {{}, fourth}
         /\ Cardinality(CharsOf(text, point)) <= 1
         /\ cut + 1 # Len(text)
        THEN {IF Uses(text, point) THEN RightOf(text, point) ELSE 0} ELSE {}

Readings(text) == Reading(text, ".", ",") \union Reading(text, ",", ".")

\* A text that is an amount in the Vietnamese or in the English convention is
\* read as one of the amounts it can be, and so as the only one when the two
\* agree or just one applies.
MoneyReadRight ==
  Answered("parse_money") /\ Readings(tool.text) # {} =>
    answer.ok /\ answer.decimals \in Readings(tool.text)

\* A chain without a violation is in order between any two dates that could
\* be read, however many unreadable ones stand between them; and conversely.
DatesInOrder ==
  Answered("check_date_order") =>
    (answer.violations = {} <=>
       \A i, j \in DOMAIN tool.dates :
         i < j /\ None \notin {tool.dates[i], tool.dates[j]} =>
           tool.dates[i] <= tool.dates[j])

\* A VAT amount rounded to the unit matches once the expected one reaches a
\* hundred units: below, half a unit is more than the half per cent allowed.
RoundedVatMatches ==
  Answered("check_vat") /\ tool.off = 0 /\ ExpectedVat(tool) >= 10000 => answer.match
=============================================================================
