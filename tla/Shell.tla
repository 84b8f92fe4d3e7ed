-------------------------------- MODULE Shell --------------------------------
(***************************************************************************)
(* The parser of user/sh.c, on the line buffer of the shell.  The buffer   *)
(* is a sequence of characters that ends in NULs; pointers are positions   *)
(* in it, and es is the position of the first NUL.  Pipes, lists,          *)
(* background commands, redirections and brackets are refused: the code    *)
(* for them is commented out.                                              *)
(***************************************************************************)
EXTENDS Integers, Sequences

CONSTANT MAXARGS   \* entries of argv[]

NUL == "NUL"
whitespace == {" ", "\n"}
symbols == {"<", "|", ">", "&", ";", "(", ")"}

strlen(b) == (CHOOSE k \in DOMAIN b : b[k] = NUL /\ \A j \in 1 .. k - 1 : b[j] # NUL) - 1

(* The string that begins at q.                                            *)
CString(b, q) == SubSeq(b, q, q - 1 + strlen(SubSeq(b, q, Len(b))))

(* c is in the string s, here the set of its characters.                  *)
strchr(s, c) == c \in s

(* The first of the positions in stops, or es.                             *)
Scan(stops, es) == CHOOSE k \in stops \cup {es} : \A j \in stops \cup {es} : k <= j

SkipSpace(b, s, es) == Scan({k \in s .. es - 1 : ~strchr(whitespace, b[k])}, es)
EndOfWord(b, s, es) ==
  Scan({k \in s .. es - 1 : strchr(whitespace, b[k]) \/ strchr(symbols, b[k])}, es)

(* The next token lies from q to eq; s is where the following one starts.  *)
gettoken(b, ps, es) ==
  LET q == SkipSpace(b, ps, es)
      c == b[q]
      append == c = ">" /\ b[q + 1] = ">"
      eq == CASE c = NUL       -> q
              [] append        -> q + 2
              [] c \in symbols -> q + 1
              [] OTHER         -> EndOfWord(b, q, es)
  IN [tok |-> CASE append                   -> "+"
                [] c \in symbols \cup {NUL} -> c
                [] OTHER                    -> "a",
      q |-> q, eq |-> eq, s |-> SkipSpace(b, eq, es)]

peek(b, ps, es, toks) == strchr(toks, b[SkipSpace(b, ps, es)])

Panic == [err |-> TRUE, argv |-> <<>>, s |-> 0]

(* A command with these words, parsed up to s.                             *)
execcmd(argv, s) == [err |-> FALSE, argv |-> argv, s |-> s]

(* A panic of an earlier part of the parser ends it.                       *)
Unless(x, b, es, toks) == IF ~x.err /\ peek(b, x.s, es, toks) THEN Panic ELSE x

(* parseredirs() comes before every turn of the loop of parseexec().       *)
RECURSIVE Arguments(_, _, _, _)
Arguments(b, ps, es, argv) ==
  LET t == gettoken(b, ps, es) IN
  CASE peek(b, ps, es, {"<", ">"}) -> Panic
    [] peek(b, ps, es, {"|", ")", "&", ";"}) \/ t.tok = NUL ->
         execcmd(argv, SkipSpace(b, ps, es))
    [] t.tok \notin {"a", NUL} \/ Len(argv) + 1 >= MAXARGS -> Panic
    [] OTHER -> Arguments(b, t.s, es, Append(argv, [q |-> t.q, eq |-> t.eq]))

parseexec(b, ps, es) == IF peek(b, ps, es, {"("}) THEN Panic ELSE Arguments(b, ps, es, <<>>)
parsepipe(b, ps, es) == Unless(parseexec(b, ps, es), b, es, {"|"})
parseline(b, ps, es) == Unless(Unless(parsepipe(b, ps, es), b, es, {"&"}), b, es, {";"})

nulterminateNot(b, argv) == b  \* Mutant: words run on to the end of the line
nulterminate(b, argv) ==
  [k \in DOMAIN b |-> IF \E i \in DOMAIN argv : argv[i].eq = k THEN NUL ELSE b[k]]

(* The words that exec() gets, if the parser does not panic.               *)
parsecmd(b) ==
  LET es == strlen(b) + 1
      cmd == parseline(b, 1, es)
  IN IF cmd.err \/ SkipSpace(b, cmd.s, es) # es THEN Panic
     ELSE [cmd EXCEPT !.argv = [i \in DOMAIN @ |-> CString(nulterminate(b, @), @[i].q)]]
=============================================================================
