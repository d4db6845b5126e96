---------------------------- MODULE TextScripts ----------------------------
(***************************************************************************)
(* The built-in functions on texts, arrays and files that are empty, of    *)
(* one letter, or repeat themselves, with positions up to and past either  *)
(* end, and on arguments of other types.                                   *)
(***************************************************************************)
EXTENDS Language
LOCAL INSTANCE SequencesExt

n(i) == Lit(Num(i))
s(x) == Lit(Str(x))
Texts(xs) == [i \in DOMAIN xs |-> s(xs[i])]
Numbers(xs) == [i \in DOMAIN xs |-> n(xs[i])]

\* Every call prints its value, or the error it ends in.
Tried(f, args) == Try(<<Output(Call(Var(f), args))>>, "e", <<Output(Var("e"))>>)
EachOf(f, argss) == [i \in DOMAIN argss |-> Tried(f, argss[i])]
\* f on what `before` is with each of xs, and with each of xs and each of ys.
With(f, before, xs) == EachOf(f, [i \in DOMAIN xs |-> Append(before, xs[i])])
WithBoth(f, before, xs, ys) == FlattenSeq([i \in DOMAIN xs |-> With(f, Append(before, xs[i]), ys)])

Arrays ==
  << Array(<<>>), Array(Numbers(<<3, -1, 2>>)), Array(Texts(<<"b", "a">>)),
     Array(<<n(2), s("b"), n(1), s("ab"), s(""), n(2), s("a")>>), Array(<<s("B"), s("a b"), s("_")>>) >>
Values ==
  << Lit(Nil), Lit(Bool(FALSE)), n(0), n(-3), s(""), s("Ab c"), s(" \t x y\n"), s("\r \n"), Var("len") >> \o Arrays

Unary1 == << "upper", "lower", "trim", "type", "str", "abs", "is_nil", "is_num", "is_str", "is_bool", "is_array",
             "len", "sort", "pop", "error", "assert", "file_exists", "file_read", "file_lines", "slice" >>
OfOne == [i \in DOMAIN Unary1 |-> With(Unary1[i], <<>>, Values)]

Starts == <<-5, -3, -1, 0, 1, 2, 3, 4>>
Sliced == Texts(<<"", "a", "abc">>)
Slices ==
  FlattenSeq([i \in DOMAIN Sliced |->
    [j \in DOMAIN Starts |->
       With("slice", <<Sliced[i], n(Starts[j])>>, Numbers(<<-4, -2, -1, 0, 1, 2, 3, 5>>) \o <<Lit(Nil)>>)
       \o <<Tried("slice", <<Sliced[i], n(Starts[j])>>)>>]])

Subjects == Texts(<<"", "a", "aa", "aba", "aab", "aaaba", "b a">>)
Binary1 == <<"split", "index", "startswith", "endswith", "contains", "max", "push">>
OfTwo ==
  FlattenSeq([i \in DOMAIN Binary1 |->
    [j \in DOMAIN Subjects |-> With(Binary1[i], <<Subjects[j]>>, Subjects \o <<Lit(Nil), n(1)>>)]])
Replaced == [j \in DOMAIN Subjects |-> WithBoth("replace", <<Subjects[j]>>, Subjects, <<s("ba"), s(""), Lit(Nil)>>)]
Others ==
  << WithBoth("repeat", <<>>, Subjects, Numbers(<<-1, 0, 1, 3>>)),
     WithBoth("join", <<>>, Arrays \o <<Array(<<Lit(Nil), Lit(Bool(TRUE)), Array(<<>>), n(7)>>), s("ab")>>,
              <<s(""), s(", "), n(1)>>),
     WithBoth("max", <<>>, Numbers(<<-2, 0, 3>>), Numbers(<<-2, 0, 3>>) \o <<Lit(Nil)>>),
     WithBoth("min", <<>>, Numbers(<<-2, 0, 3>>), Numbers(<<-2, 0, 3>>) \o <<Lit(Nil)>>),
     WithBoth("contains", <<>>, Arrays, <<n(2), s("b"), Lit(Nil)>>),
     WithBoth("remove", <<>>, Arrays, Numbers(<<-8, -7, -1, 0, 2, 3>>)) >>

\* A file is written, read, added to and read again; an array is kept in it.
Contents == <<"", "a", "\n", "a\n", "a\r\nb", "\r", "\n\n", "a\n\r\n">>
File == s("notes")
OnFile(text) ==
  << Tried("file_exists", <<File>>), Tried("file_append", <<File, text>>), Tried("file_lines", <<File>>),
     Tried("file_append", <<File, s("b")>>), Tried("file_lines", <<File>>), Tried("file_read", <<File>>),
     Tried("file_write", <<File, text>>), Tried("file_read", <<File>>), Tried("file_exists", <<File>>),
     Tried("file_write", <<s(""), text>>), Tried("file_append", <<Lit(Nil), text>>), Tried("file_read", <<s("no")>>),
     Tried("file_write", <<File, n(1)>>), Tried("file_lines", <<File>>) >>
Kept(array) ==
  << Tried("file_write", <<File, Call(Var("join"), <<array, s("\n")>>)>>),
     Output(Call(Var("file_lines"), <<File>>)),
     Let("again", Call(Var("split"), <<Call(Var("file_read"), <<File>>), s("\n")>>)),
     Let("same", Var("again")), Tried("sort", <<Var("again")>>), Output(Var("same")) >>

TextPool ==
  OfOne \o Slices \o OfTwo \o Replaced \o Others
  \o [i \in DOMAIN Contents |-> OnFile(s(Contents[i]))] \o [i \in DOMAIN Arrays |-> Kept(Arrays[i])]
=============================================================================
