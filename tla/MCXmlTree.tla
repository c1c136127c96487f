------------------------------ MODULE MCXmlTree -----------------------------
(* Documents of up to four elements for TLC. *)
EXTENDS XmlTree

CONSTANTS plain, closing

TwoTexts == {plain, closing}
Closing == {closing}

WithOrWithoutEncoding == {<< >>, << [name |-> "encoding", value |-> "none"] >>}
=============================================================================
