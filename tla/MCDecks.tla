------------------------------- MODULE MCDecks -------------------------------
(* Values the instances of the presentations give their constants.           *)
EXTENDS Decks, TLC

CONSTANTS d1, d2, room, owner, t1, r1

\* The second deck lies inside the first one's directory.
Paths  == d1 :> <<"conferences", "nfjs", "crypto">> @@ d2 :> <<"conferences", "nfjs", "crypto", "extra">>
Lowers == [s \in {"conferences", "nfjs", "crypto", "extra"} |-> s]
Grants == room :> {d2} @@ owner :> {d1, d2}

Tree(toml1, index2, slide2) ==
  [f \in Deck \X {"toml", "index", "slide"} |->
     CASE f = <<d1, "toml">> -> toml1 [] f = <<d2, "toml">> -> Plain
       [] f = <<d2, "index">> -> index2 [] f = <<d2, "slide">> -> slide2 [] OTHER -> t1]

\* The outer directory may be a deck, and then the inner one is not; the inner one
\* may have been built.
TwoTrees == {Tree(Plain, t1, t1), Tree(Absent, Absent, Plain)}
===============================================================================
