---------------------------- MODULE MCStructures ----------------------------
(***************************************************************************)
(* The components that one thread uses at a time, in one model: "subject"  *)
(* is chosen at the start, and only that component takes steps.            *)
(***************************************************************************)
EXTENDS TablePage, MCBPlusTree, DiskManager, Catalog, RecordFormat, Decimals,
        SqlParser

CONSTANT Blank      \* the byte of the page while it is not the subject

VARIABLE subject

Subjects == {"page", "tree", "disk", "catalog", "record", "decimal", "sql"}

StructuresInit ==
    /\ subject \in Subjects
    /\ Init /\ TreeInit /\ DiskInit /\ CatInit /\ RecordInit
    /\ DecimalInit /\ SqlInit
    /\ subject # "tree" => tree.limit = Min(PageLimits)
    /\ subject # "disk" => ~exists
    /\ subject # "page" => bytes = [a \in Addresses |-> Blank]

StructuresNext ==
    /\ UNCHANGED subject
    /\ \/ /\ subject = "page"
          /\ Next
          /\ UNCHANGED <<treeVars, diskVars, catVars, recordVars, decimalVars, sqlVars>>
       \/ /\ subject = "tree"
          /\ TreeNext
          /\ UNCHANGED <<vars, diskVars, catVars, recordVars, decimalVars, sqlVars>>
       \/ /\ subject = "disk"
          /\ DiskNext
          /\ UNCHANGED <<vars, treeVars, catVars, recordVars, decimalVars, sqlVars>>
       \/ /\ subject = "catalog"
          /\ CatNext
          /\ UNCHANGED <<vars, treeVars, diskVars, recordVars, decimalVars, sqlVars>>
       \/ /\ subject = "record"
          /\ RecordNext
          /\ UNCHANGED <<vars, treeVars, diskVars, catVars, decimalVars, sqlVars>>
       \/ /\ subject = "decimal"
          /\ DecimalNext
          /\ UNCHANGED <<vars, treeVars, diskVars, catVars, recordVars, sqlVars>>
       \/ /\ subject = "sql"
          /\ SqlNext
          /\ UNCHANGED <<vars, treeVars, diskVars, catVars, recordVars, decimalVars>>

structuresVars ==
    <<subject, vars, treeVars, diskVars, catVars, recordVars, decimalVars, sqlVars>>

StructuresSpec == StructuresInit /\ [][StructuresNext]_structuresVars

-----------------------------------------------------------------------------
\* Bounds of the catalog's identifiers.
MCLastIds == [schema |-> 2, table |-> 2, column |-> 2, index |-> 2]

\* Values to store: fixed and variable ones, empty, nested and with losses.
Num(n) == Value("Integer", <<n, 0>>)
Txt(s) == Value("Text", s)
Arr(s) == ArrayOf("Invalid", s)

MCSamples ==
    [Integer |-> {Num(1), Num(2)},
     Text |-> {Txt(<<>>), Txt(<<1>>), Txt(<<1, 2>>)},
     Boolean |-> {Value("Boolean", <<1>>)},
     Numeric |-> {Value("Numeric", <<1, 2, 3>>)},
     Array |-> {Arr(<<>>), Arr(<<Num(1), Txt(<<>>)>>), ArrayOf("Integer", <<Num(1)>>),
                Arr(<<NullOf("Text")>>), Arr(<<NullOf("Integer")>>),
                Arr(<<Arr(<<Num(2)>>), DictOf([k \in {<<7>>} |-> Txt(<<3>>)])>>)},
     DICT |-> {DictOf([k \in {} |-> Num(1)]),
               DictOf([k \in {<<1>>, <<2>>, <<1, 2>>} |->
                          IF k = <<1>> THEN Num(1) ELSE Txt(<<1>>)])},
     TimestampTZ |-> {Value("TimestampTZ", <<1, 2>>)},
     JSON |-> {Value("JSON", <<1>>)}]

\* A language with one-letter and two-letter keywords.
MCUpper ==
    [c \in {"a", "b", "s", "S", "f", "w"} |->
        CASE c = "s" -> "S" [] c = "f" -> "F" [] c = "w" -> "W" [] OTHER -> c]

MCKeywords ==
    [k \in {<<"S">>, <<"F">>, <<"W">>, <<"S", "S">>, <<"F", "F">>, <<"W", "W">>} |->
        CASE k = <<"S">> -> "Select" [] k = <<"S", "S">> -> "As"
          [] k = <<"F">> -> "From" [] k = <<"F", "F">> -> "And"
          [] k = <<"W">> -> "Where" [] k = <<"W", "W">> -> "Not"]

Phrase(text, toks) == [text |-> text, tokens |-> toks]
IdA == Token("Identifier", <<"a">>)
IdB == Token("Identifier", <<"b", "1">>)
One == Token("IntegerLiteral", <<"1">>)

MCPhrases ==
    {Phrase(<<"s", " ">>, <<Token("Select", <<"S">>)>>),
     Phrase(<<"s", " ", "a", " ">>, <<Token("Select", <<"S">>), IdA>>),
     Phrase(<<"s", "-", " ">>, <<Token("Select", <<"S">>), Token("Minus", <<"-">>)>>),
     Phrase(<<"s", " ", "a", "(">>,
            <<Token("Select", <<"S">>), IdA, Token("LeftParen", <<"(">>)>>),
     Phrase(<<"f", "\n", "a", " ">>, <<Token("From", <<"F">>), IdA>>),
     Phrase(<<"w", "/", "*", "*", "*", "/">>, <<Token("Where", <<"W">>)>>),
     Phrase(<<"a", " ">>, <<IdA>>),
     Phrase(<<"s", "s", " ", "b", "1", " ">>, <<Token("As", <<"S", "S">>), IdB>>),
     Phrase(<<"+", "b", "1", "-", "-", "'", "\n">>, <<Token("Plus", <<"+">>), IdB>>),
     Phrase(<<"*", "a", " ">>, <<Token("Star", <<"*">>), IdA>>),
     Phrase(<<"*">>, <<Token("Star", <<"*">>)>>),
     Phrase(<<"<", "=", "1", ".", "0", " ">>,
            <<Token("LessEqual", <<"<", "=">>),
              Token("FloatLiteral", <<"1", ".", "0">>)>>),
     Phrase(<<"<", "'", "'", "'", "-", "'">>,
            <<Token("Less", <<"<">>), Token("StringLiteral", <<"'", "-">>)>>),
     Phrase(<<"f", "f", " ", "1", " ">>, <<Token("And", <<"F", "F">>), One>>),
     Phrase(<<"w", "w", " ">>, <<Token("Not", <<"W", "W">>)>>),
     Phrase(<<"-", " ">>, <<Token("Minus", <<"-">>)>>),
     Phrase(<<"a", "(">>, <<IdA, Token("LeftParen", <<"(">>)>>),
     Phrase(<<")">>, <<Token("RightParen", <<")">>)>>),
     Phrase(<<",">>, <<Token("Comma", <<",">>)>>),
     Phrase(<<",", "a", " ">>, <<Token("Comma", <<",">>), IdA>>),
     Phrase(<<"|", " ">>, <<NoToken>>)}
=============================================================================
