---------------------------- MODULE StreamParser ----------------------------
(***************************************************************************)
(* The one parser of a ClientBase and the streams it is fed: a server      *)
(* spells well-formed XML, the receive loop reads it in pieces of any      *)
(* size, connections are lost in the middle of it, and the next stream     *)
(* meets the parser as the last one left it (ClientBase::parse).           *)
(***************************************************************************)
EXTENDS XmlParser, FiniteSets

CONSTANTS
  Stanzas,         \* the stanzas the server may send, as sequences of pieces
  DeclQuote,       \* the quotes of the server's XML declaration
  Quote,           \* and those of its other attributes
  ReadSizes,       \* what a read may take, apart from everything there is
  MaxItems,        \* bound: stream headers, stanzas and ends on a connection
  MaxBreaks,       \* bound: connections that are lost
  MaxConnections   \* bound: connections

VARIABLES
  parser,        \* ClientBase::m_parser
  up,            \* there is a connection
  said,          \* the items that the server spelled on it
  read,          \* how many atoms of their text were read
  told,          \* what ClientBase::handleTag got from this connection
  error,         \* why the last connection ended
  stain,         \* "cut": a connection was lost inside markup and nothing was refused
                 \* since; "reset": something was refused since; "none": no such loss
  breaks, connections

vars == <<parser, up, said, read, told, error, stain, breaks, connections>>

-----------------------------------------------------------------------------
(* The server's text.                                                      *)

Header == <<"declaration", "header">>
Bye    == <<"bye">>

\* How a piece is spelled, and what the reader of it must be told.
Spelling ==
  [declaration |-> <<"<", "?", "xml", " ", "version", "=", DeclQuote, "1.0", DeclQuote, "?", ">">>,
   header |-> <<"<", "stream", ":", "stream", " ", "xmlns", ":", "stream", "=",
                Quote, "streams", Quote, ">">>,
   bye |-> <<"<", "/", "stream", ":", "stream", ">">>,
   features |-> <<"<", "stream", ":", "features", ">">>,
   endfeatures |-> <<"<", "/", "stream", ":", "features", ">">>,
   message |-> <<"<", "message", " ", "id", "=", Quote, "v", "&", "amp", ";", Quote, ">">>,
   endmessage |-> <<"<", "/", "message", ">">>,
   body |-> <<"<", "body", " ", "xml", ":", "lang", " ", "=", Quote, "en", Quote, ">">>,
   endbody |-> <<"<", "/", "body", ">">>,
   empty |-> <<"<", "x", " ", "/", ">">>,
   text |-> <<"a">>,
   reference |-> <<"&", "lt", ";">>,
   number |-> <<"&", "#", "x20AC", ";">>,
   cdata |-> <<"<", "!", "[CDATA[", "]", "<", "]", "]", "]", ">">>]

Meaning ==
  [declaration |-> <<>>,
   header |-> <<<<"open", <<"stream">>, <<"stream">>,
                  << <<<<"xmlns">>, <<"stream">>, <<"streams">>>> >>>>>>,
   bye |-> <<>>,
   features |-> <<<<"open", <<"stream">>, <<"features">>, <<>>>>>>,
   endfeatures |-> <<<<"close">>>>,
   message |-> <<<<"open", <<>>, <<"message">>, << <<<<>>, <<"id">>, <<"v", "&">>>> >>>>>>,
   endmessage |-> <<<<"close">>>>,
   body |-> <<<<"open", <<>>, <<"body">>, << <<<<"xml">>, <<"lang">>, <<"en">>>> >>>>>>,
   endbody |-> <<<<"close">>>>,
   empty |-> <<<<"open", <<>>, <<"x">>, <<>>>>, <<"close">>>>,
   text |-> <<<<"text", "a">>>>,
   reference |-> <<<<"text", "<">>>>,
   number |-> <<<<"text", "x20AC">>>>,
   cdata |-> <<<<"text", "]">>, <<"text", "<">>, <<"text", "]">>>>]

Piece == DOMAIN Spelling

ASSUME ServerAssumption ==
  /\ Stanzas \subseteq Seq(Piece)
  /\ {DeclQuote, Quote} \subseteq {"'", "\""}
ASSUME ReadAssumption ==
  /\ ReadSizes \subseteq Nat \ {0}
  /\ {MaxItems, MaxBreaks, MaxConnections} \subseteq Nat

Text(pieces)   == FlattenSeq([i \in DOMAIN pieces |-> Spelling[pieces[i]]])
Saying(item)   == FlattenSeq([i \in DOMAIN item |-> Meaning[item[i]]])

-----------------------------------------------------------------------------
Init ==
  /\ parser = NewParser
  /\ up = FALSE /\ said = <<>> /\ read = 0 /\ told = <<>>
  /\ error = "none" /\ stain = "none"
  /\ breaks = 0 /\ connections = 0

\* The parser is not touched.
Connect ==
  /\ ~up /\ connections < MaxConnections
  /\ up' = TRUE /\ connections' = connections + 1
  /\ said' = <<>> /\ read' = 0 /\ told' = <<>>
  /\ UNCHANGED <<parser, error, stain, breaks>>

\* The server opens the stream, restarts it, sends a stanza or ends it.
Say(item) ==
  /\ up /\ Len(said) < MaxItems
  /\ said = <<>> => item = Header
  /\ said # <<>> => Last(said) # Bye
  /\ said' = Append(said, item)
  /\ UNCHANGED <<parser, up, read, told, error, stain, breaks, connections>>

\* ClientBase::parse: feed the parser, and end the connection if it refuses.
Parse(data) ==
  LET fed == Feed(parser, data)
  IN  /\ parser' = [fed EXCEPT !.pos = 1, !.ret = "go", !.told = <<>>]
      /\ told' = told \o fed.told
      /\ IF fed.ret = "refused"
         THEN up' = FALSE /\ error' = "ParseError" /\ stain' = "reset"
         ELSE UNCHANGED <<up, error, stain>>

Pending == SubSeq(Text(FlattenSeq(said)), read + 1, Len(Text(FlattenSeq(said))))

Receive ==
  /\ up
  /\ \E n \in ReadSizes \union {Len(Pending)} :
       /\ 0 < n /\ n <= Len(Pending)
       /\ Parse(SubSeq(Pending, 1, n))
       /\ read' = read + n
  /\ UNCHANGED <<said, breaks, connections>>

\* The reader stands between two pieces.
BetweenPieces ==
  LET pieces == FlattenSeq(said)
  IN  \E n \in 0 .. Len(pieces) : read = Len(Text(SubSeq(pieces, 1, n)))

\* The connection is lost; what is not yet read is lost with it.
Break ==
  /\ up /\ breaks < MaxBreaks
  /\ up' = FALSE /\ error' = "IoError" /\ breaks' = breaks + 1
  /\ stain' = IF BetweenPieces THEN stain ELSE "cut"
  /\ UNCHANGED <<parser, said, read, told, connections>>

Next ==
  \/ Connect
  \/ \E item \in Stanzas \union {Header, Bye} : Say(item)
  \/ Receive
  \/ Break

Spec == Init /\ [][Next]_vars

-----------------------------------------------------------------------------
(* Properties.                                                             *)

\* Every member of the parser holds what its declaration allows, and m_current is set
\* exactly while there is a root: addTag() and closeTag() keep them together.
TypeOK ==
  /\ parser.state \in ParserState
  /\ parser.preamble \in 0 .. 2
  /\ parser.open = <<>> <=> parser.marks = <<>>
  /\ Len(parser.open) <= Len(parser.marks)
  /\ {parser.haveTagPrefix, parser.haveAttribPrefix, parser.attribIsXmlns, parser.quote,
      parser.rootIsStream, up} \subseteq BOOLEAN
  /\ said \in Seq(Stanzas \union {Header, Bye})
  /\ read <= Len(Text(FlattenSeq(said)))
  /\ error \in {"none", "IoError", "ParseError"} /\ stain \in {"none", "cut", "reset"}

\* The items of this connection that have been read to their last character; the end of
\* the stream is told to nobody.
WholeItems ==
  LET n == Cardinality({i \in DOMAIN said : Len(Text(FlattenSeq(SubSeq(said, 1, i)))) <= read})
  IN  SelectSeq(SubSeq(said, 1, n), LAMBDA item : item # Bye)

\* However the reads cut the text, handleTag() has got exactly the items that were read
\* whole, each as the server spelled it, in their order: nothing later, nothing of an
\* earlier connection. Only a connection lost inside markup can change that for the next.
HeardExactly ==
  up /\ stain # "cut" => told = [i \in DOMAIN WholeItems |-> Saying(WholeItems[i])]

\* The parser refuses a character and parse() gives the connection up.
Refused == up /\ ~up' /\ error' = "ParseError"

\* Well-formed XML is refused only after a connection that was lost inside markup, and
\* then once: parse() disconnects with ConnParseError and the next login is heard.
RefusedOnlyAfterCut == [][Refused => stain = "cut"]_vars

\* Violated. parser.h says that cleanup() resets the internal state: so what follows a
\* refusal, after which feed() has called it, is not refused in its turn.
HeardAfterCleanup == [][Refused => stain # "reset"]_vars

=============================================================================
