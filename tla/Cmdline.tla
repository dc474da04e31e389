------------------------------ MODULE Cmdline ------------------------------
(* The command lines machteld builds (winjob_cmdline.c), and the readers at the *)
(* other end: the C runtime's argument parser and cmd.exe, both external.       *)
EXTENDS Naturals, Sequences, SequencesExt

(* A character is one of: "q" quote, "b" backslash, "s" space, "x" plain,       *)
(* "p" percent, "m" a character cmd acts on, "n" line end. "c" stands for the   *)
(* run  cd:~,  that only the quoting writes.                                    *)
Chars == {"q", "b", "s", "x", "p", "m", "n"}

Slashes(n) == [i \in 1 .. n |-> "b"]
Has(s, C) == \E i \in DOMAIN s : s[i] \in C
EndsWith(s, c) == s # <<>> /\ s[Len(s)] = c

\* Quoting runs through the text with the output so far and the length of the run
\* of backslashes just written.
Quoted(start, step(_, _), s, wrap) ==
  LET end == FoldLeft(step, [out |-> start, run |-> 0], s)
  IN IF wrap THEN end.out \o Slashes(end.run) \o <<"q">> ELSE end.out
Put(acc, piece, run) == [out |-> acc.out \o piece, run |-> run]
------------------------------------------------------------------------------
(* Programs: wj_escape_arg and wj_make_cmdline.                             *)

EscapeStep(acc, c) ==
  CASE c = "b" -> Put(acc, <<"b">>, acc.run + 1)
    [] c = "q" -> Put(acc, Slashes(acc.run) \o <<"b", "q">>, 0)
    [] OTHER -> Put(acc, <<c>>, 0)

\* Fault: the trailing backslashes are not doubled before the closing quote.
EscapeArgOpenEnd(s) ==
  IF s = <<>> THEN <<"q", "q">>
  ELSE IF Has(s, {"s"}) THEN Quoted(<<"q">>, EscapeStep, s, FALSE) \o <<"q">>
  ELSE Quoted(<<>>, EscapeStep, s, FALSE)
EscapeArg(s) ==
  IF s = <<>> THEN <<"q", "q">>
  ELSE LET wrap == Has(s, {"s"})
       IN Quoted(IF wrap THEN <<"q">> ELSE <<>>, EscapeStep, s, wrap)

MakeCmdline(argv) == FlattenSeq([i \in DOMAIN argv |->
  IF i > 1 THEN <<"s">> \o EscapeArg(argv[i]) ELSE EscapeArg(argv[i])])
------------------------------------------------------------------------------
(* Batch files: wj_make_batch_cmdline.                                      *)

Neutral == <<"p", "p", "c", "p">>

BatchStep(acc, c) ==
  CASE c = "b" -> Put(acc, <<"b">>, acc.run + 1)
    [] c = "q" -> Put(acc, Slashes(acc.run) \o <<"q", "q">>, 0)
    [] c = "p" -> Put(acc, Neutral, 0)
    [] OTHER -> Put(acc, <<c>>, 0)

\* Fault: quotes are escaped the way programs expect it.
BatchArgLikeProgram(s) == EscapeArg(s)
BatchArg(s) ==
  LET wrap == s = <<>> \/ EndsWith(s, "b") \/ Has(s, {"q", "s", "p", "m"})
  IN Quoted(IF wrap THEN <<"q">> ELSE <<>>, BatchStep, s, wrap)

\* The quoting refuses what cmd would cut its line at, and a script it cannot quote.
BatchRefused(script, args) ==
  \/ Has(script, {"q", "n"}) \/ EndsWith(script, "b")
  \/ \E i \in DOMAIN args : Has(args[i], {"n"})

\* What follows  cmd.exe ... /c  between the outer quotes.
MakeBatchCmdline(script, args) ==
  <<"q">> \o FlattenSeq([i \in DOMAIN script |-> IF script[i] = "p" THEN Neutral ELSE <<script[i]>>])
  \o <<"q">> \o FlattenSeq([i \in DOMAIN args |-> <<"s">> \o BatchArg(args[i])])
------------------------------------------------------------------------------
(* The readers (external).                                                  *)

\* The C runtime: 2n backslashes before a quote are n, one more makes the quote a
\* character; a doubled quote in a quoted part is a quote.
ParseStep(st, c) ==
  LET flush == [st EXCEPT !.cur = @ \o Slashes(st.run), !.run = 0, !.closed = FALSE]
      half == st.cur \o Slashes(st.run \div 2)
  IN CASE c = "b" -> [st EXCEPT !.run = @ + 1, !.any = TRUE, !.closed = FALSE]
       [] c = "q" /\ st.run % 2 = 1 ->
            [st EXCEPT !.cur = half \o <<"q">>, !.run = 0, !.closed = FALSE]
       [] c = "q" /\ st.closed /\ st.run = 0 ->
            [st EXCEPT !.cur = @ \o <<"q">>, !.in = TRUE, !.closed = FALSE]
       [] c = "q" /\ ~(st.run % 2 = 1) /\ ~(st.closed /\ st.run = 0) ->
            [st EXCEPT !.cur = half, !.run = 0, !.in = ~@, !.any = TRUE, !.closed = st.in]
       [] c = "s" /\ ~st.in ->
            IF st.any THEN [args |-> Append(st.args, flush.cur), cur |-> <<>>, run |-> 0,
                            in |-> FALSE, any |-> FALSE, closed |-> FALSE]
            ELSE st
       [] c # "b" /\ c # "q" /\ ~(c = "s" /\ ~st.in) ->
            [flush EXCEPT !.cur = @ \o <<c>>, !.any = TRUE]

ParseArgs(line) ==
  LET end == FoldLeft(ParseStep, [args |-> <<>>, cur |-> <<>>, run |-> 0,
                                  in |-> FALSE, any |-> FALSE, closed |-> FALSE], line)
  IN IF end.any THEN Append(end.args, end.cur \o Slashes(end.run)) ELSE end.args

\* cmd's percent phase: %name% is replaced, %% by itself stays a percent, the empty
\* piece of %cd% is nothing. "!" marks that something of the text was replaced.
ExpandStep(st, c) ==
  CASE ~st.open /\ c = "p" -> [st EXCEPT !.open = TRUE, !.name = <<>>]
    [] ~st.open /\ c # "p" -> [st EXCEPT !.out = Append(@, c)]
    [] st.open /\ c # "p" -> [st EXCEPT !.name = Append(@, c)]
    [] st.open /\ c = "p" /\ st.name = <<>> -> [st EXCEPT !.out = Append(@, "p")]
    [] st.open /\ c = "p" /\ st.name # <<>> ->
         [open |-> FALSE, name |-> <<>>,
          out |-> IF st.name = <<"c">> THEN st.out ELSE Append(st.out, "!")]
Expand(line) ==
  LET end == FoldLeft(ExpandStep, [out |-> <<>>, open |-> FALSE, name |-> <<>>], line)
  IN IF end.open THEN end.out \o <<"p">> \o end.name ELSE end.out

\* cmd acts on "m" wherever an even number of quotes precedes it.
ActsStep(st, c) == [open |-> (c = "q") # st.open, acts |-> st.acts \/ (c = "m" /\ ~st.open)]
ActsOn(line) == FoldLeft(ActsStep, [open |-> FALSE, acts |-> FALSE], line).acts
==============================================================================
