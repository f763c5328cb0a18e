------------------------------ MODULE MCMessages -----------------------------
(* Every file name of up to five bytes, every mix of recipients, paths and *)
(* display names, and lists of documents with gaps.                        *)
EXTENDS Messages

Recipients == {r \in Recipient : r.class # "cc"}
UpTo(n, S) == UNION {[1..k -> S] : k \in 0..n}

Utf8Names == {s \in UpTo(5, Bytes) : ValidUtf8(s)}
Paths == {<<>>, <<"x", "/", "x">>, <<"con", "/", "x">>}
Names == {<<>>, <<"x">>, <<"x", "?">>}
Attached == [path: Paths, filename: Names \cup {Null}]

SendMail(recipients, files) == [api: {"SendMail"}, recipients: recipients, files: files]

TestCalls ==
  SendMail({<<>>}, {<<[path |-> <<"x", "/">> \o s, filename |-> f]>> :
                       s \in Utf8Names, f \in {Null, <<"x">>}})
  \cup SendMail({<<>>}, {<<[path |-> <<"x">>, filename |-> s]>> : s \in Utf8Names})
  \cup SendMail(UpTo(2, Recipients), {<<>>})
  \cup SendMail([1..3 -> [class: {"cc"}, name: {"words"}, address: {"plain"}]], {<<>>})
  \cup SendMail({<<>>}, UpTo(2, Attached) \cup [1..3 -> [path: Paths \ {<<>>}, filename: {Null}]])
  \cup [api: {"SendDocuments"}, paths: UpTo(3, Paths), names: UpTo(2, Names)]
=============================================================================
