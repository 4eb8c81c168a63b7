-------------------------- MODULE MCNefisAttributes --------------------------
(* Small instances of NefisAttributes: two slots of each kind.                *)
EXTENDS NefisAttributes

CONSTANT v

MCBehind == <<"data">>

\* Lists with which there is never more than one integer and one real: the
\* second number is never created.
MCOne == { <<<<"n", "1">>>>, <<<<"n", "2">>, <<"x", "1.5">>>>,
           <<<<"x", "1.5">>, <<"x", "1">>>>, <<<<"x", Empty>>>>, <<<<"t", "text">>>>,
           <<<<"n", Empty>>>>, <<<<"t", Empty>>, <<"n", "text">>>>,
           <<<<"t", "text">>, <<"n", Invalid>>>> }

\* Two integers may be created.
MCTwo == { <<<<"n", "1">>>>, <<<<"m", "2">>>>, <<<<"x", "1.5">>>>, <<<<"s", "text">>>>,
           <<<<"n", Empty>>>>, <<<<"s", Empty>>>> }
===============================================================================
