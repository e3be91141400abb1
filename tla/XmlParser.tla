----------------------------- MODULE XmlParser -----------------------------
(***************************************************************************)
(* gloox::Parser: what Parser::feed makes of the next piece of a stream,   *)
(* whatever the pieces are (gloox/src/parser.cpp).                         *)
(*                                                                         *)
(* Text is a sequence of atoms: the characters that the parser tells       *)
(* apart, and for everything else one atom per name, value or letter. The  *)
(* parser appends such atoms to what it collects, one after the other,     *)
(* whichever they are. " " is white space of any kind.                     *)
(***************************************************************************)
EXTENDS Naturals, Sequences, SequencesExt

ParserState ==
  {"Initial", "InterTag", "TagOpening", "TagOpeningSlash", "TagInside", "TagNameCollect",
   "TagNameComplete", "TagNameAlmostComplete", "TagAttribute", "TagAttributeComplete",
   "TagAttributeEqual", "TagClosing", "TagClosingSlash", "TagAttributeValue",
   "TagCDATASection"}

\* A parser: a field per member of the class. The tag below m_root is the sequence of
\* its marks: what was opened, which text it holds, what was closed. The chain from the
\* root to m_current is `open`. The last three fields are local to feed(): its index,
\* how its loop ends, and the tags it hands to the handler.
NewParser ==
  [state |-> "Initial", marks |-> <<>>, open |-> <<>>, rootIsStream |-> FALSE,
   tag |-> <<>>, tagPrefix |-> <<>>, haveTagPrefix |-> FALSE,
   attrib |-> <<>>, attribPrefix |-> <<>>, haveAttribPrefix |-> FALSE,
   attribIsXmlns |-> FALSE, value |-> <<>>, attribs |-> <<>>, quote |-> FALSE,
   cdata |-> <<>>, preamble |-> 0, backBuffer |-> <<>>,
   pos |-> 1, ret |-> "go", told |-> <<>>]

\* "Resets internal state": all of it but m_quote, m_attribIsXmlns and m_backBuffer.
Cleanup(p) ==
  [NewParser EXCEPT !.quote = p.quote, !.attribIsXmlns = p.attribIsXmlns,
                    !.backBuffer = p.backBuffer,
                    !.pos = p.pos, !.ret = p.ret, !.told = p.told]

Refuse(p)           == [Cleanup(p) EXCEPT !.ret = "refused"]
Go(p, s)            == [p EXCEPT !.state = s]
Collect(p, s, f, c) == [p EXCEPT !.state = s, ![f] = Append(@, c)]
StreamEvent(p)      == [p EXCEPT !.told = Append(@, p.marks)]

Rest(p, data)  == SubSeq(data, p.pos, Len(data))

\* Mutant of Await: the rest of the data is forgotten.
AwaitForgets(p, data) == [p EXCEPT !.ret = "wait"]

\* The rest of the data is kept for the next feed().
Await(p, data) == [p EXCEPT !.backBuffer = Rest(p, data), !.ret = "wait"]

-----------------------------------------------------------------------------
(* Tags, attributes, text.                                                 *)

\* The namespace of a tag with this prefix is that of the stream.
DeclaresStream(prefix, attribs) ==
  \E i \in DOMAIN attribs :
    attribs[i][1] \o attribs[i][2] = <<"xmlns">> \o prefix /\ attribs[i][3] = <<"streams">>

\* A stream header is told at once and forgotten; an XML declaration is only forgotten,
\* together with whatever tag was open before it.
AddTag(p) ==
  LET prefix   == IF p.haveTagPrefix THEN p.tagPrefix ELSE <<>>
      isRoot   == p.marks = <<>>
      inStream == IF isRoot THEN DeclaresStream(prefix, p.attribs) ELSE p.rootIsStream
      added    == [p EXCEPT !.marks = Append(@, <<"open", prefix, p.tag, p.attribs>>),
                            !.open = Append(@, <<prefix, p.tag>>),
                            !.rootIsStream = inStream,
                            !.haveTagPrefix = FALSE, !.attribs = <<>>]
  IN  CASE p.tag = <<"stream">> /\ inStream -> Cleanup(StreamEvent(added))
        [] p.tag = <<"xml">> /\ p.preamble = 2 -> Cleanup(added)
        [] OTHER -> [added EXCEPT !.rootIsStream = @ \/ (isRoot /\ p.tagPrefix = <<"stream">>)]

AddAttribute(p) ==
  LET prefix == IF p.attribIsXmlns THEN <<"xmlns">> ELSE p.attribPrefix
  IN  [p EXCEPT !.attribs = Append(@, <<prefix, p.attrib, p.value>>),
                !.attrib = <<>>, !.value = <<>>, !.attribPrefix = <<>>,
                !.haveAttribPrefix = FALSE, !.attribIsXmlns = FALSE]

AddCData(p) ==
  IF p.open = <<>> THEN p
  ELSE [p EXCEPT !.marks = @ \o [i \in DOMAIN p.cdata |-> <<"text", p.cdata[i]>>],
                 !.cdata = <<>>]

\* The end tag must name the innermost open tag, by its prefix too when that tag has one.
\* The end of the stream is none: it closes nothing and is told to nobody.
ClosesCurrent(p) ==
  /\ p.open # <<>>
  /\ Last(p.open)[2] = p.tag
  /\ Last(p.open)[1] \in {<<>>, p.tagPrefix}

Closed(p) ==
  [p EXCEPT !.marks = Append(@, <<"close">>), !.open = Front(@),
            !.tagPrefix = <<>>, !.haveTagPrefix = FALSE]

IsStreamEnd(p) == p.tag = <<"stream">> /\ p.tagPrefix = <<"stream">>

\* Mutant of CloseTag: the tag that was handed over is not forgotten.
CloseTagKeepsRoot(p) ==
  CASE IsStreamEnd(p) -> Go(p, "InterTag")
    [] ~IsStreamEnd(p) /\ ~ClosesCurrent(p) -> Refuse(p)
    [] ~IsStreamEnd(p) /\ ClosesCurrent(p) ->
         Go(IF Len(p.open) > 1 THEN Closed(p) ELSE StreamEvent(Closed(p)), "InterTag")

CloseTag(p) ==
  CASE IsStreamEnd(p) -> Go(p, "InterTag")
    [] ~IsStreamEnd(p) /\ ~ClosesCurrent(p) -> Refuse(p)
    [] ~IsStreamEnd(p) /\ ClosesCurrent(p) ->
         Go(IF Len(p.open) > 1 THEN Closed(p) ELSE Cleanup(StreamEvent(Closed(p))), "InterTag")

\* The references: by name, and by number for some code points, which the code takes
\* when they are in certain ranges. What a reference stands for, and how long it is.
Entity    == [lt |-> "<", gt |-> ">", amp |-> "&", apos |-> "'", quot |-> "\""]
CodePoint == [xA |-> 10, x41 |-> 65, x20AC |-> 8364, xFFFE |-> 65534, x1F600 |-> 128512]
Accepted  == {9, 10, 13} \union (32 .. 55295) \union (57344 .. 65533) \union (1048576 .. 1114110)

References(text) ==
  {<<Entity[e], 3>> : e \in {n \in DOMAIN Entity : IsPrefix(<<"&", n, ";">>, text)}} \union
  {<<d, 4>> : d \in {n \in DOMAIN CodePoint : /\ CodePoint[n] \in Accepted
                                              /\ IsPrefix(<<"&", "#", n, ";">>, text)}}

TakeReference(p, data, field) ==
  IF References(Rest(p, data)) = {} THEN Refuse(p)
  ELSE LET r == CHOOSE r \in References(Rest(p, data)) : TRUE
       IN  [p EXCEPT ![field] = Append(@, r[1]), !.pos = @ + r[2] - 1]

\* Mutant of Decode: a reference that is not there yet is refused.
DecodeAtOnce(p, data, field) == TakeReference(p, data, field)

\* A reference is taken when its ';' has arrived.
Decode(p, data, field) ==
  IF Contains(Rest(p, data), ";") THEN TakeReference(p, data, field) ELSE Await(p, data)

\* Parser::forwardScan: the caller's next step when the needle is found, and when not.
ForwardScan(p, data, needle, found, notFound) ==
  CASE Len(needle) > Len(Rest(p, data)) -> Await(p, data)
    [] IsPrefix(needle, Rest(p, data)) -> [found EXCEPT !.pos = @ + Len(needle) - 1]
    [] OTHER -> notFound

TakePrefix(p) ==
  IF p.haveTagPrefix THEN Refuse(p)
  ELSE [p EXCEPT !.haveTagPrefix = TRUE, !.tagPrefix = p.tag, !.tag = <<>>]

-----------------------------------------------------------------------------
(* One character in each state of the parser.                              *)

Initial(p, c) ==
  CASE c = " " -> p
    [] c = "<" -> Go(p, "TagOpening")
    [] OTHER   -> Refuse(p)

InterTag(p, c) ==
  LET q == [p EXCEPT !.tag = <<>>]
  IN  CASE c = " " -> q
        [] c = "<" -> Go(q, "TagOpening")
        [] OTHER   -> IF q.open = <<>> THEN q ELSE Collect(q, "TagInside", "cdata", c)

TagOpening(p, c, data) ==
  CASE c = " " -> p
    [] c \in {"<", ">", "&"} -> Refuse(p)
    [] c = "/" -> Go(p, "TagClosingSlash")
    [] c = "?" -> [Go(p, "TagNameCollect") EXCEPT !.preamble = 1]
    [] c = "!" -> ForwardScan(p, data, <<"!", "[CDATA[">>, Go(p, "TagCDATASection"), Refuse(p))
    [] OTHER   -> Collect(p, "TagNameCollect", "tag", c)

TagCDATASection(p, c, data) ==
  IF c = "]" THEN ForwardScan(p, data, <<"]", "]", ">">>, Go(p, "TagInside"),
                              Collect(p, p.state, "cdata", c))
             ELSE Collect(p, p.state, "cdata", c)

TagNameCollect(p, c) ==
  CASE c = " " -> Go(p, "TagNameComplete")
    [] c \in {"<", "?", "!", "&"} -> Refuse(p)
    [] c = "/" -> Go(p, "TagOpeningSlash")
    [] c = ">" -> Go(AddTag(p), "TagInside")
    [] c = ":" -> TakePrefix(p)
    [] OTHER   -> Collect(p, p.state, "tag", c)

TagInside(p, c, data) ==
  LET q == [p EXCEPT !.tag = <<>>]
  IN  CASE c = "<" -> Go(AddCData(q), "TagOpening")
        [] c = "&" -> Decode(q, data, "cdata")
        [] OTHER   -> Collect(q, q.state, "cdata", c)

TagOpeningSlash(p, c) ==
  CASE c = " " -> p
    [] c = ">" -> CloseTag(AddTag(p))
    [] OTHER   -> Refuse(p)

TagClosingSlash(p, c) ==
  CASE c = " " -> p
    [] c \in {">", "<", "/"} -> Refuse(p)
    [] OTHER   -> Collect(p, "TagClosing", "tag", c)

\* White space is part of the name here.
TagClosing(p, c) ==
  CASE c \in {"<", "/", "!", "?", "&"} -> Refuse(p)
    [] c = ":" -> TakePrefix(p)
    [] c = ">" -> CloseTag(p)
    [] OTHER   -> Collect(p, p.state, "tag", c)

\* The end of a tag with or without attributes.
TagEnd(p, c) ==
  CASE c = "/" -> Go(p, "TagOpeningSlash")
    [] c = ">" -> IF p.preamble = 1 THEN Refuse(p) ELSE AddTag(Go(p, "TagInside"))
    [] c = "?" -> IF p.preamble = 1 THEN [p EXCEPT !.preamble = 2] ELSE Refuse(p)

TagNameComplete(p, c) ==
  CASE c = " " -> p
    [] c \in {"<", "!", "&"} -> Refuse(p)
    [] c \in {"/", ">", "?"} -> TagEnd(p, c)
    [] OTHER   -> Collect(p, "TagAttribute", "attrib", c)

TagNameAlmostComplete(p, c) ==
  CASE c = " " -> Go(p, "TagNameComplete")
    [] c \in {"/", ">", "?"} -> TagEnd(p, c)
    [] OTHER   -> Refuse(p)

TagAttribute(p, c) ==
  CASE c = " " -> Go(p, "TagAttributeComplete")
    [] c \in {"<", "/", ">", "?", "!", "&"} -> Refuse(p)
    [] c = "=" -> Go(p, "TagAttributeEqual")
    [] c = ":" /\ p.attrib = <<"xmlns">> -> [p EXCEPT !.attribIsXmlns = TRUE, !.attrib = <<>>]
    [] c = ":" /\ p.attrib # <<"xmlns">> ->
         IF p.haveAttribPrefix THEN Refuse(p)
         ELSE [p EXCEPT !.haveAttribPrefix = TRUE, !.attribPrefix = p.attrib, !.attrib = <<>>]
    [] OTHER   -> Collect(p, p.state, "attrib", c)

TagAttributeComplete(p, c) ==
  CASE c = " " -> p
    [] c = "=" -> Go(p, "TagAttributeEqual")
    [] OTHER   -> Refuse(p)

TagAttributeEqual(p, c) ==
  CASE c = " " -> p
    [] c = "\"" -> [Go(p, "TagAttributeValue") EXCEPT !.quote = TRUE]
    [] c = "'" -> Go(p, "TagAttributeValue")
    [] OTHER   -> Refuse(p)

\* A double quote ends every value, a single quote those that no double quote began.
TagAttributeValue(p, c, data) ==
  CASE c = "<" -> Refuse(p)
    [] c = "\"" \/ (c = "'" /\ ~p.quote) ->
         [Go(AddAttribute(p), "TagNameAlmostComplete") EXCEPT !.quote = FALSE]
    [] c = "&" -> Decode(p, data, "value")
    [] OTHER   -> Collect(p, p.state, "value", c)

-----------------------------------------------------------------------------
(* Parser::feed.                                                           *)

Step(p, c, data) ==
  CASE p.state = "Initial"               -> Initial(p, c)
    [] p.state = "InterTag"              -> InterTag(p, c)
    [] p.state = "TagOpening"            -> TagOpening(p, c, data)
    [] p.state = "TagCDATASection"       -> TagCDATASection(p, c, data)
    [] p.state = "TagNameCollect"        -> TagNameCollect(p, c)
    [] p.state = "TagInside"             -> TagInside(p, c, data)
    [] p.state = "TagOpeningSlash"       -> TagOpeningSlash(p, c)
    [] p.state = "TagClosingSlash"       -> TagClosingSlash(p, c)
    [] p.state = "TagClosing"            -> TagClosing(p, c)
    [] p.state = "TagNameComplete"       -> TagNameComplete(p, c)
    [] p.state = "TagNameAlmostComplete" -> TagNameAlmostComplete(p, c)
    [] p.state = "TagAttribute"          -> TagAttribute(p, c)
    [] p.state = "TagAttributeComplete"  -> TagAttributeComplete(p, c)
    [] p.state = "TagAttributeEqual"     -> TagAttributeEqual(p, c)
    [] p.state = "TagAttributeValue"     -> TagAttributeValue(p, c, data)

RECURSIVE Scan(_, _)
Scan(p, data) ==
  IF p.ret # "go" \/ p.pos > Len(data) THEN p
  ELSE LET q == Step(p, data[p.pos], data) IN Scan([q EXCEPT !.pos = @ + 1], data)

Feed(p, data) ==
  Scan([p EXCEPT !.backBuffer = <<>>, !.pos = 1, !.ret = "go", !.told = <<>>],
       p.backBuffer \o data)

=============================================================================
