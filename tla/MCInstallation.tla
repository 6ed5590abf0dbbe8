------------------------- MODULE MCInstallation -------------------------
(* Two seed files of a small household, for TLC. *)
EXTENDS Installation

CONSTANTS juan, ana, bea, first, second, one, two, phone, newer

NoItems == [partner |-> {}, parents |-> {}, grandparents |-> {}, siblings |-> {},
            grandchildren |-> {}, pets |-> {}, withhold |-> {}, children |-> {},
            literals |-> {}, contacts |-> {}, status |-> [section \in {} |-> "none"]]

Says(who, pred, value) == [who |-> who, pred |-> pred, value |-> value, valid |-> TRUE]
Calls(who, role, order) == [who |-> who, role |-> role, phone |-> phone, order |-> order,
                            key |-> FALSE]

\* A child who is also a contact, and the function of the owner.
FirstFile == [NoItems EXCEPT !.children = {[who |-> ana, adult |-> FALSE]},
                !.literals = {Says(juan, "mobility", one), Says(ana, "likes", one)},
                !.contacts = {Calls(ana, "emergency", 1)}]

\* A sibling who is not told everything; nobody to call, and the function left out.
OtherFile == [NoItems EXCEPT !.siblings = {bea}, !.withhold = {bea},
                !.status = [section \in {"function"} |-> "none"]]

MCContents == [id \in {first, second} |-> IF id = first THEN FirstFile ELSE OtherFile]
MCAdminLiterals == {Says(juan, "mobility", two)}
=========================================================================
