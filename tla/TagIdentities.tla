---------------------------- MODULE TagIdentities ----------------------------
(***************************************************************************)
(* What a tag overlay is keyed on (tagstore.rs, Identities).               *)
(*                                                                         *)
(* A resource of the room's graph is a book of the export, whose IRI the   *)
(* next export may give to another work, or something else (a bookmark, a  *)
(* presentation).  An overlay entry about a book is stored under the       *)
(* durable identity of its work, urn:zotero:item:{KEY}, where the link     *)
(* overlay knows one; here that identity is the work itself.               *)
(***************************************************************************)
CONSTANTS
  Book,    \* urn:cms:book:{sha}, as exports use them
  Other,   \* bookmarks and presentations
  Work,    \* the items of the Zotero library, each with its durable key
  NoWork,  \* a book IRI no work has, or none it is matched with
  Tag

ASSUME IdentityAssumption ==
  /\ Book \cap Work = {} /\ Book \cap Other = {} /\ Other \cap Work = {}
  /\ NoWork \notin Work

Resource == Book \cup Other
Key      == Resource \cup Work
Entry    == Key \X Tag

\* A link overlay: the matched work of each book, at most one.  Several books
\* of the export may be one work.
LinkMap == [Book -> Work \cup {NoWork}]

\* The key an entry is stored under.
canonical(links, k) == IF k \in Book /\ links[k] # NoWork THEN links[k] ELSE k

\* The resources an entry is served under: none when no book is that work.
project(links, k) == IF k \in Work THEN {b \in Book : links[b] = k} ELSE {k}

\* An overlay as the room's graph sees it.
projected(links, es) ==
  {e \in Resource \X Tag :
     \E k \in Key : <<k, e[2]>> \in es /\ e[1] \in project(links, k)}

\* An overlay's entries under the keys they are to be stored under.
rekeyed(links, es) == {<<canonical(links, e[1]), e[2]>> : e \in es}
==============================================================================
