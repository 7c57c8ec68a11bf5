----------------------------- MODULE SqlParser ------------------------------
(***************************************************************************)
(* The SQL front end of src/src/sql/: Lexer and Parser.  A client writes a *)
(* statement phrase by phrase, the constructor of Parser runs the lexer    *)
(* over the text, and parse_statement builds the tree of a SELECT.         *)
(*                                                                         *)
(* A text is a sequence of characters.  Words are short: Keywords names    *)
(* the spelling of each keyword here.  Locations are left out, and the     *)
(* value of a number is its digits.                                        *)
(***************************************************************************)
EXTENDS Integers, SequencesExt

CONSTANTS Keywords,    \* k_keywords: from an upper-case word to a token type
          Upper,       \* std::toupper: from a letter to its upper case
          Phrases,     \* what is written: records of a text and its tokens
          MaxPhrases

VARIABLES phrases,     \* the statement as written
          tokens,      \* m_tokens: empty before the lexer ran, and when it failed
          lexed,       \* whether the lexer ran
          statement    \* the result of parse_statement

sqlVars == <<phrases, tokens, lexed, statement>>

Letters == DOMAIN Upper
Digits == {"0", "1"}
Blanks == {" ", "\r", "\t", "\n"}
EndOfText == "\f"                       \* what peek returns past the end: no character

Token(type, lexeme) == [type |-> type, lexeme |-> lexeme]
Eof == Token("Eof", <<>>)
NoToken == Token("Error", <<>>)

Text == FoldLeft(LAMBDA t, p : t \o p.text, <<>>, phrases)

-----------------------------------------------------------------------------
(* Lexer.  Operators take the text and the position of the next character. *)

Peek(text, at) == IF at <= Len(text) THEN text[at] ELSE EndOfText

\* The position of the first character from "at" on that is not in a set.
RECURSIVE Past(_, _, _)
Past(text, at, set) ==
    IF at <= Len(text) /\ text[at] \in set THEN Past(text, at + 1, set) ELSE at

\* The end of a comment: the line's end, or behind the closing mark if there is one.
LineEnd(text, at) == Past(text, at, {text[i] : i \in DOMAIN text} \ {"\n"})

RECURSIVE CommentEnd(_, _)
CommentEnd(text, at) ==
    IF at > Len(text) THEN at
    ELSE IF text[at] = "*" /\ Peek(text, at + 1) = "/" THEN at + 2
    ELSE CommentEnd(text, at + 1)

\* skip_whitespace_and_comments.
RECURSIVE SkipBlanks(_, _)
SkipBlanks(text, at) ==
    CASE Peek(text, at) \in Blanks -> SkipBlanks(text, at + 1)
      [] Peek(text, at) = "-" /\ Peek(text, at + 1) = "-" -> SkipBlanks(text, LineEnd(text, at))
      [] Peek(text, at) = "/" /\ Peek(text, at + 1) = "*" -> SkipBlanks(text, CommentEnd(text, at + 2))
      [] OTHER -> at

ScanTo(token, at) == [token |-> token, at |-> at]

\* Seeded fault: a doubled quote ends the literal.
RECURSIVE StringLiteralPlain(_, _, _)
StringLiteralPlain(text, at, content) ==
    IF at > Len(text) THEN ScanTo(NoToken, at)
    ELSE IF text[at] = "'" THEN ScanTo(Token("StringLiteral", content), at + 1)
    ELSE StringLiteralPlain(text, at + 1, Append(content, text[at]))

\* scan_string_literal: a doubled quote is a quote, a single one ends the literal.
RECURSIVE StringLiteral(_, _, _)
StringLiteral(text, at, content) ==
    IF at > Len(text) THEN ScanTo(NoToken, at)
    ELSE IF text[at] = "'" /\ Peek(text, at + 1) = "'"
    THEN StringLiteral(text, at + 2, Append(content, "'"))
    ELSE IF text[at] = "'" THEN ScanTo(Token("StringLiteral", content), at + 1)
    ELSE StringLiteral(text, at + 1, Append(content, text[at]))

QuotedIdentifier(text, at) ==
    LET end == Past(text, at, {text[i] : i \in DOMAIN text} \ {"\""})
    IN  IF end > Len(text) THEN ScanTo(NoToken, end)
        ELSE ScanTo(Token("QuotedIdentifier", SubSeq(text, at, end - 1)), end + 1)

\* scan_number: a point belongs to the number only if a digit follows it.
Number(text, at) ==
    LET whole == Past(text, at, Digits)
        float == Peek(text, whole) = "." /\ Peek(text, whole + 1) \in Digits
        end == IF float THEN Past(text, whole + 1, Digits) ELSE whole
    IN  ScanTo(Token(IF float THEN "FloatLiteral" ELSE "IntegerLiteral",
                      SubSeq(text, at, end - 1)), end)

Word(text, at) ==
    LET end == Past(text, at, Letters \union Digits \union {"_"})
        word == SubSeq(text, at, end - 1)
        upper == [i \in DOMAIN word |-> IF word[i] \in Letters THEN Upper[word[i]] ELSE word[i]]
    IN  ScanTo(IF upper \in DOMAIN Keywords THEN Token(Keywords[upper], upper)
                ELSE Token("Identifier", word), end)

\* The characters that are a token of their own, and those two make one.
Single == [c \in {"(", ")", ",", ".", ";", "+", "-", "*", "/", "=", "<", ">"} |->
              CASE c = "(" -> "LeftParen" [] c = ")" -> "RightParen" [] c = "," -> "Comma"
                [] c = "." -> "Dot" [] c = ";" -> "Semicolon" [] c = "+" -> "Plus"
                [] c = "-" -> "Minus" [] c = "*" -> "Star" [] c = "/" -> "Slash"
                [] c = "=" -> "Equal" [] c = "<" -> "Less" [] c = ">" -> "Greater"]
Double == [p \in {<<"=", "=">>, <<"!", "=">>, <<"<", "=">>, <<"<", ">">>, <<">", "=">>, <<"|", "|">>} |->
              CASE p = <<"=", "=">> -> "Equal" [] p = <<"!", "=">> -> "NotEqual"
                [] p = <<"<", "=">> -> "LessEqual" [] p = <<"<", ">">> -> "NotEqual"
                [] p = <<">", "=">> -> "GreaterEqual" [] p = <<"|", "|">> -> "Concat"]

ScanToken(text, at) ==
    LET c == text[at]
        pair == <<c, Peek(text, at + 1)>>
    IN  CASE pair \in DOMAIN Double -> ScanTo(Token(Double[pair], pair), at + 2)
          [] pair \notin DOMAIN Double /\ c \in DOMAIN Single ->
               ScanTo(Token(Single[c], <<c>>), at + 1)
          [] c = "'" -> StringLiteral(text, at + 1, <<>>)
          [] c = "\"" -> QuotedIdentifier(text, at + 1)
          [] c \in Digits -> Number(text, at)
          [] c \in Letters \union {"_"} -> Word(text, at)
          [] OTHER -> ScanTo(NoToken, at + 1)

\* Lexer::tokenize: all tokens and an Eof, or none if one is malformed.
RECURSIVE TokensFrom(_, _, _)
TokensFrom(text, at, found) ==
    LET start == SkipBlanks(text, at)
        scan == ScanToken(text, start)
    IN  IF start > Len(text) THEN Append(found, Eof)
        ELSE IF scan.token = NoToken THEN <<>>
        ELSE TokensFrom(text, scan.at, Append(found, scan.token))

-----------------------------------------------------------------------------
(* Parser.  Operators take m_current and return where they left it, if     *)
(* they succeeded, and the tree.                                           *)

TypeAt(at) == tokens[at].type
AtEnd(at) == TypeAt(at) = "Eof"

Parsed(at, tree) == [ok |-> TRUE, at |-> at, tree |-> tree]
ParseError(at) == [ok |-> FALSE, at |-> at, tree |-> <<>>]

Leaf(token) == [leaf |-> token]
Unary(op, operand) == [unary |-> op, operand |-> operand]
Binary(left, op, right) == [left |-> left, op |-> op, right |-> right]
Call(name, distinct, args) == [call |-> name, distinct |-> distinct, args |-> args]

Assignment == 1
UnaryPrecedence == 8

\* get_precedence.
Precedence(type) ==
    CASE type = "Or" -> 2
      [] type = "And" -> 3
      [] type \in {"Equal", "NotEqual", "Is", "In"} -> 4
      [] type \in {"Less", "LessEqual", "Greater", "GreaterEqual"} -> 5
      [] type \in {"Plus", "Minus", "Concat"} -> 6
      [] type \in {"Star", "Slash"} -> 7
      [] OTHER -> 0

\* Skips one token of a type, as match does.
Matched(at, type) == IF TypeAt(at) = type THEN at + 1 ELSE at

LeafTypes == {"IntegerLiteral", "StringLiteral", "True", "False", "Identifier"}

RECURSIVE ParseExpression(_, _), ParseArguments(_, _), ParseInfixes(_, _)

\* The arguments of a call up to the closing parenthesis; a star ends the list.
ParseArguments(at, args) ==
    IF TypeAt(at) = "Star" THEN Parsed(at + 1, args)
    ELSE LET arg == ParseExpression(at, Assignment)
         IN  IF ~arg.ok THEN arg
             ELSE IF TypeAt(arg.at) = "Comma"
             THEN ParseArguments(arg.at + 1, Append(args, arg.tree))
             ELSE Parsed(arg.at, Append(args, arg.tree))

ParseCall(at) ==
    LET open == Matched(at + 2, "Distinct")
        args == IF TypeAt(open) = "RightParen" THEN Parsed(open, <<>>) ELSE ParseArguments(open, <<>>)
    IN  IF ~args.ok THEN args
        ELSE IF TypeAt(args.at) # "RightParen" THEN ParseError(args.at)
        ELSE Parsed(args.at + 1, Call(tokens[at], open = at + 3, args.tree))

\* parse_prefix of the token at a position.
ParsePrefix(at) ==
    CASE TypeAt(at) = "Identifier" /\ TypeAt(at + 1) = "LeftParen" -> ParseCall(at)
      [] TypeAt(at) \in {"Minus", "Not"} ->
           LET operand == ParseExpression(at + 1, UnaryPrecedence)
           IN  IF operand.ok THEN Parsed(operand.at, Unary(TypeAt(at), operand.tree)) ELSE operand
      [] TypeAt(at) \in LeafTypes /\ ~(TypeAt(at) = "Identifier" /\ TypeAt(at + 1) = "LeftParen") ->
           Parsed(at + 1, Leaf(tokens[at]))
      [] OTHER -> ParseError(at)

\* Seeded fault: parse_infix accepts an operator of its own precedence on the right.
ParseInfixesRight(left, precedence) ==
    IF ~left.ok \/ ~(precedence < Precedence(TypeAt(left.at))) THEN left
    ELSE LET right == ParseExpression(left.at + 1, Precedence(TypeAt(left.at)) - 1)
         IN  IF ~right.ok THEN right
             ELSE ParseInfixes(Parsed(right.at, Binary(left.tree, TypeAt(left.at), right.tree)),
                               precedence)

\* The loop of parse_expression, with parse_infix.
ParseInfixes(left, precedence) ==
    IF ~left.ok \/ ~(precedence < Precedence(TypeAt(left.at))) THEN left
    ELSE LET right == ParseExpression(left.at + 1, Precedence(TypeAt(left.at)))
         IN  IF ~right.ok THEN right
             ELSE ParseInfixes(Parsed(right.at, Binary(left.tree, TypeAt(left.at), right.tree)),
                               precedence)

ParseExpression(at, precedence) ==
    IF AtEnd(at) THEN ParseError(at) ELSE ParseInfixes(ParsePrefix(at), precedence)

\* The name that follows AS, if there is an AS.
ParseAlias(parsed) ==
    IF ~parsed.ok \/ TypeAt(parsed.at) # "As" THEN [parsed EXCEPT !.tree = <<@>>]
    ELSE IF TypeAt(parsed.at + 1) # "Identifier" THEN ParseError(parsed.at + 1)
    ELSE Parsed(parsed.at + 2, <<parsed.tree, tokens[parsed.at + 1]>>)

\* The projection: stars, or expressions with an alias, between commas.
RECURSIVE ParseProjection(_, _)
ParseProjection(at, found) ==
    LET column == IF TypeAt(at) = "Star" THEN Parsed(at + 1, <<Leaf(tokens[at])>>)
                  ELSE ParseAlias(ParseExpression(at, Assignment))
    IN  IF ~column.ok THEN column
        ELSE IF TypeAt(column.at) = "Comma"
        THEN ParseProjection(column.at + 1, Append(found, column.tree))
        ELSE Parsed(column.at, Append(found, column.tree))

\* Seeded fault: an alias without AS is walked over and not kept.
ParseTableNoAlias(at) ==
    IF TypeAt(at) # "Identifier" THEN ParseError(at)
    ELSE IF TypeAt(at + 1) = "Identifier" THEN Parsed(at + 2, <<Leaf(tokens[at])>>)
    ELSE ParseAlias(Parsed(at + 1, Leaf(tokens[at])))

\* A table: its name and an alias, with or without AS.
ParseTable(at) ==
    IF TypeAt(at) # "Identifier" THEN ParseError(at)
    ELSE IF TypeAt(at + 1) = "Identifier" THEN Parsed(at + 2, <<Leaf(tokens[at]), tokens[at + 1]>>)
    ELSE ParseAlias(Parsed(at + 1, Leaf(tokens[at])))

RECURSIVE ParseTables(_, _)
ParseTables(at, found) ==
    LET table == ParseTable(at)
    IN  IF ~table.ok THEN table
        ELSE IF TypeAt(table.at) = "Comma"
        THEN ParseTables(table.at + 1, Append(found, table.tree))
        ELSE Parsed(table.at, Append(found, table.tree))

ParseSelect(at) ==
    LET columns == IF TypeAt(at) = "From" THEN Parsed(at, <<>>) ELSE ParseProjection(at, <<>>)
        tables == IF columns.ok /\ TypeAt(columns.at) = "From"
                  THEN ParseTables(columns.at + 1, <<>>) ELSE [columns EXCEPT !.tree = <<>>]
        where == IF tables.ok /\ TypeAt(tables.at) = "Where"
                 THEN ParseExpression(tables.at + 1, Assignment) ELSE [tables EXCEPT !.tree = <<>>]
    IN  IF ~where.ok THEN where
        ELSE Parsed(where.at, [columns |-> columns.tree, tables |-> tables.tree,
                               where |-> IF where.at = tables.at THEN <<>> ELSE <<where.tree>>])

-----------------------------------------------------------------------------
NotParsed == ParseError(0)
Crashed == ParseError(-1)

\* The client adds a phrase to the text.
Write(p) ==
    /\ ~lexed /\ Len(phrases) < MaxPhrases
    /\ phrases' = Append(phrases, p)
    /\ UNCHANGED <<tokens, lexed, statement>>

\* Parser::Parser: a failure of the lexer is not reported, the tokens stay empty.
Tokenize ==
    /\ ~lexed
    /\ lexed' = TRUE
    /\ tokens' = TokensFrom(Text, 1, <<>>)
    /\ UNCHANGED <<phrases, statement>>

\* parse_statement.  With no tokens it reads the location of the first one: the
\* build may return the error it meant to return, or crash.
ParseStatement ==
    /\ lexed /\ statement = NotParsed
    /\ \/ tokens = <<>> /\ statement' \in {ParseError(1), Crashed}
       \/ tokens # <<>> /\ statement' = IF TypeAt(1) = "Select" THEN ParseSelect(2) ELSE ParseError(1)
    /\ UNCHANGED <<phrases, tokens, lexed>>

SqlInit == phrases = <<>> /\ tokens = <<>> /\ lexed = FALSE /\ statement = NotParsed

SqlNext ==
    \/ \E p \in Phrases : Write(p)
    \/ Tokenize
    \/ ParseStatement

SqlSpec == SqlInit /\ [][SqlNext]_sqlVars

-----------------------------------------------------------------------------
\* The tokens a tree stands for, without the words AS, which it does not keep.
Joined(parts, separator) ==
    FoldLeft(LAMBDA all, part : IF all = <<>> THEN part ELSE all \o separator \o part, <<>>, parts)

Bare(type) == Token(type, <<>>)
Plain(token) == IF token.type \in LeafTypes THEN token ELSE Bare(token.type)

RECURSIVE Yield(_)
Yield(tree) ==
    CASE "leaf" \in DOMAIN tree -> <<Plain(tree.leaf)>>
      [] "unary" \in DOMAIN tree -> <<Bare(tree.unary)>> \o Yield(tree.operand)
      [] "op" \in DOMAIN tree -> Yield(tree.left) \o <<Bare(tree.op)>> \o Yield(tree.right)
      [] "call" \in DOMAIN tree ->
           <<tree.call, Bare("LeftParen")>> \o
           (IF tree.distinct THEN <<Bare("Distinct")>> ELSE <<>>) \o
           Joined([i \in DOMAIN tree.args |-> Yield(tree.args[i])], <<Bare("Comma")>>) \o
           <<Bare("RightParen")>>

YieldAliased(item) == Yield(item[1]) \o Tail(item)

YieldSelect(s) ==
    LET list(items) == Joined([i \in DOMAIN items |-> YieldAliased(items[i])], <<Bare("Comma")>>)
    IN  <<Bare("Select")>> \o list(s.columns) \o
        (IF s.tables = <<>> THEN <<>> ELSE <<Bare("From")>> \o list(s.tables)) \o
        (IF s.where = <<>> THEN <<>> ELSE <<Bare("Where")>> \o Yield(s.where[1]))

\* Every tree in a tree: itself, its operands and its arguments.
RECURSIVE Subtrees(_)
Subtrees(tree) ==
    {tree} \union
    (CASE "leaf" \in DOMAIN tree -> {}
       [] "unary" \in DOMAIN tree -> Subtrees(tree.operand)
       [] "op" \in DOMAIN tree -> Subtrees(tree.left) \union Subtrees(tree.right)
       [] "call" \in DOMAIN tree -> UNION {Subtrees(tree.args[i]) : i \in DOMAIN tree.args})

Expressions(s) == {s.columns[i][1] : i \in DOMAIN s.columns} \union ToSet(s.where)

\* The lexer finds the tokens that were written, whatever blanks and comments stand
\* between them, whatever characters they share and however their quotes are doubled;
\* a text with a malformed word gives no tokens at all (Lexer::tokenize).
TokensAsWritten ==
    lexed =>
        tokens = IF \E i \in DOMAIN phrases : NoToken \in ToSet(phrases[i].tokens) THEN <<>>
                 ELSE FoldLeft(LAMBDA all, p : all \o p.tokens, <<>>, phrases) \o <<Eof>>

\* The tree of a statement that parses has exactly the tokens the parser walked over,
\* each once and in order: none is skipped or used twice on the way through the expression, list
\* and alias loops.  The star of COUNT(*) is the one token the tree does not keep.
TreeKeepsTokens ==
    statement.ok =>
        LET walked == SubSeq(tokens, 1, statement.at - 1)
            dropped == \E i \in 2 .. Len(walked) :
                          /\ walked[i].type = "Star"
                          /\ walked[i - 1].type \in {"LeftParen", "Distinct", "Comma"}
        IN  dropped \/ YieldSelect(statement.tree) =
                SelectSeq([i \in DOMAIN walked |-> Plain(walked[i])], LAMBDA t : t.type # "As")

\* Operators bind as their precedences say: a tree has no weaker operator below a
\* stronger one, operators of one precedence group to the left, and a sign or a NOT
\* takes no operator with it (Parser::parse_expression).
TreeFollowsPrecedence ==
    statement.ok =>
        \A e \in Expressions(statement.tree) : \A tree \in Subtrees(e) :
            /\ "op" \in DOMAIN tree =>
                 /\ "op" \in DOMAIN tree.left => Precedence(tree.left.op) >= Precedence(tree.op)
                 /\ "op" \in DOMAIN tree.right => Precedence(tree.right.op) > Precedence(tree.op)
            /\ "unary" \in DOMAIN tree => "op" \notin DOMAIN tree.operand

\* The tree of a statement is the one the grammar gives the tokens that were read: all
\* of them in their order, grouped by the precedences.  Tokens behind the last clause
\* are left unread without an error (Parser::parse_select, parse_expression).
TreeFollowsGrammar == TreeKeepsTokens /\ TreeFollowsPrecedence
=============================================================================
