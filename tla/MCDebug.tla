------------------------------ MODULE MCDebug ------------------------------
(***************************************************************************)
(* The holders of a debug session on one program.                          *)
(*                                                                         *)
(* The program: file 1 has five lines of ten bytes, the statements         *)
(* indented by two, file 2 has one.                                        *)
(*                                                                         *)
(*   1  xs.each(cb)          <toplevel>: a builtin that calls cb back      *)
(*   2  while go()           main: a loop around                           *)
(*   3    f() catch          a call whose error is caught                  *)
(*   4  end                                                                *)
(*   5  def cb() f()                                                       *)
(*   file 2:  def f() may throw                                            *)
(***************************************************************************)
EXTENDS DebugClients

I(op, to) == [op |-> op, to |-> to]
S(file, start, end) == [file |-> file, start |-> start, end |-> end]

MCCode == <<
  <<I("plain", 0), I("native", 3), I("ret", 0)>>,
  <<I("branch", 4), I("call", 4), I("jump", 1), I("ret", 0)>>,
  <<I("call", 4), I("ret", 0)>>,
  <<I("branch", 3), I("throw", 0), I("ret", 0)>> >>
MCHandler == << <<0, 0, 0>>, <<0, 3, 0, 0>>, <<0, 0>>, <<0, 0, 0>> >>
MCSpans == <<
  <<S(1, 2, 3), S(1, 2, 8), S(1, 0, 0)>>,
  <<S(1, 10, 33), S(1, 22, 25), S(1, 10, 33), S(1, 10, 11)>>,
  <<S(1, 45, 47), S(1, 42, 43)>>,
  <<S(2, 4, 5), S(2, 4, 7), S(2, 1, 2)>> >>
MCLineStarts == << <<0, 10, 20, 30, 40>>, <<0>> >>
MCLength == <<50, 10>>
MCArities == {NoMain, 0, 1}
=============================================================================
