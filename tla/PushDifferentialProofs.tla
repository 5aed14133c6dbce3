----------------------- MODULE PushDifferentialProofs -----------------------
(***************************************************************************)
(* That the two push parsers deliver the same events and come to the same  *)
(* result, for every document, every event the sinks refuse and every      *)
(* checkpoint period.  The driver's parse is written down as a run of      *)
(* PushParse while the driver makes it; the cursor, whose turn is next,    *)
(* follows the run, one of its steps at most one of the run's; it cannot   *)
(* leave the run, and returns at its last state.                           *)
(*                                                                         *)
(* DP and CP are the modules the two components are proved in, seen from   *)
(* here.  Their definitions are those of D and C, letter for letter, which *)
(* is what the first lemmas say.                                           *)
(***************************************************************************)
EXTENDS PushDifferential, PushParse, TLAPS

DP == INSTANCE IndexedDriverProofs WITH
        doc <- ddoc, pos <- dpos, mark <- dmark, cnt <- dcnt, kind <- dkind, pc <- dpc,
        outcome <- doutcome, errorAt <- derrorAt, open <- dopen, vals <- dvals, calls <- dcalls

CP == INSTANCE FusedCursorProofs WITH
        Docs <- Seq(Token), Options <- {Strict}, doc <- cdoc, opts <- copts, pos <- cpos,
        mark <- cmark, cnt <- ccnt, kind <- ckind, flat <- cflat, pc <- cpc, outcome <- coutcome,
        errorAt <- cerrorAt, open <- copen, vals <- cvals, calls <- ccalls

-----------------------------------------------------------------------------
(* The two views of the driver.                                            *)
LEMMA SameDriver ==
    /\ D!Init <=> DP!Init
    /\ D!Start <=> DP!Start
    /\ D!Step <=> DP!Step
    /\ D!Collect <=> DP!Collect
BY Zenon
   DEF D!Openers, DP!Openers, D!Closers, DP!Closers, D!Delimiter, DP!Delimiter,
       D!PlainScalars, DP!PlainScalars, D!NanKeywords, DP!NanKeywords, D!Scalars, DP!Scalars,
       D!Token, DP!Token, D!Quoted, DP!Quoted, D!KeyText, DP!KeyText, D!Kinds, DP!Kinds,
       D!KindOf, DP!KindOf, D!CloserOf, DP!CloserOf, D!Accepted, DP!Accepted, D!ValueError,
       DP!ValueError, D!ParseErrors, DP!ParseErrors, D!Top, DP!Top, D!Pop, DP!Pop, D!SetTop,
       DP!SetTop, D!Call, DP!Call, D!ScalarCall, DP!ScalarCall, D!KeyCall, DP!KeyCall,
       D!BeginCall, DP!BeginCall, D!EndCall, DP!EndCall, D!CheckpointCall, DP!CheckpointCall,
       D!OneMoreValue, DP!OneMoreValue, D!OneMoreKey, DP!OneMoreKey, D!WithValue,
       DP!WithValue, D!sinkVars, DP!sinkVars, D!Opened, DP!Opened, D!SinkStart, DP!SinkStart,
       D!SinkScalar, DP!SinkScalar, D!SinkKey, DP!SinkKey, D!SinkBegin, DP!SinkBegin,
       D!SinkEnd, DP!SinkEnd, D!SinkCheckpoint, DP!SinkCheckpoint, D!SinkRefuses,
       DP!SinkRefuses, D!RootFrame, DP!RootFrame, D!Frame, DP!Frame, D!Running, DP!Running,
       D!Taking, DP!Taking, D!Tok, DP!Tok, D!Return, DP!Return, D!Fail, DP!Fail, D!Continue,
       DP!Continue, D!RefusedBy, DP!RefusedBy, D!Start, DP!Start, D!Collect, DP!Collect,
       D!UnexpectedEnd, DP!UnexpectedEnd, D!Enter, DP!Enter, D!EmitScalar, DP!EmitScalar,
       D!Value, DP!Value, D!EmitKey, DP!EmitKey, D!Resume, DP!Resume, D!EndContainer,
       DP!EndContainer, D!Root, DP!Root, D!Fresh, DP!Fresh, D!Colon, DP!Colon, D!NextValue,
       DP!NextValue, D!CheckpointDue, DP!CheckpointDue, D!NextElement, DP!NextElement,
       D!NextPair, DP!NextPair, D!Key, DP!Key, D!SeparatorOrCloser, DP!SeparatorOrCloser,
       D!AfterScalar, DP!AfterScalar, D!AfterChild, DP!AfterChild, D!Finish, DP!Finish,
       D!Step, DP!Step, D!Init, DP!Init

(* The two views of the cursor.                                            *)
LEMMA SameCursor ==
    /\ C!Init <=> CP!Init
    /\ C!Start <=> CP!Start
    /\ C!Step <=> CP!Step
    /\ C!Collect <=> CP!Collect
BY Zenon
   DEF C!Openers, CP!Openers, C!Closers, CP!Closers, C!Delimiter, CP!Delimiter,
       C!PlainScalars, CP!PlainScalars, C!NanKeywords, CP!NanKeywords, C!Scalars, CP!Scalars,
       C!Token, CP!Token, C!Quoted, CP!Quoted, C!KeyText, CP!KeyText, C!Kinds, CP!Kinds,
       C!KindOf, CP!KindOf, C!CloserOf, CP!CloserOf, C!Accepted, CP!Accepted, C!ValueError,
       CP!ValueError, C!ParseErrors, CP!ParseErrors, C!Top, CP!Top, C!Pop, CP!Pop, C!SetTop,
       CP!SetTop, C!Call, CP!Call, C!ScalarCall, CP!ScalarCall, C!KeyCall, CP!KeyCall,
       C!BeginCall, CP!BeginCall, C!EndCall, CP!EndCall, C!CheckpointCall, CP!CheckpointCall,
       C!OneMoreValue, CP!OneMoreValue, C!OneMoreKey, CP!OneMoreKey, C!WithValue,
       CP!WithValue, C!sinkVars, CP!sinkVars, C!Opened, CP!Opened, C!SinkStart, CP!SinkStart,
       C!SinkScalar, CP!SinkScalar, C!SinkKey, CP!SinkKey, C!SinkBegin, CP!SinkBegin,
       C!SinkEnd, CP!SinkEnd, C!SinkCheckpoint, CP!SinkCheckpoint, C!SinkRefuses,
       CP!SinkRefuses, C!ROOT_MARK, CP!ROOT_MARK, C!Strict, CP!Strict, C!RootFrame,
       CP!RootFrame, C!EmptyFlat, CP!EmptyFlat, C!CurrentFrame, CP!CurrentFrame, C!Running,
       CP!Running, C!Reading, CP!Reading, C!Tok, CP!Tok, C!ScalarTok, CP!ScalarTok,
       C!ErrorTok, CP!ErrorTok, C!AtRoot, CP!AtRoot, C!Return, CP!Return, C!Fail, CP!Fail,
       C!Continue, CP!Continue, C!RefusedBy, CP!RefusedBy, C!Consume, CP!Consume, C!Start,
       CP!Start, C!Collect, CP!Collect, C!UnexpectedEnd, CP!UnexpectedEnd, C!Finish,
       CP!Finish, C!Attempt, CP!Attempt, C!Descend, CP!Descend, C!FlatEnd, CP!FlatEnd,
       C!FlatElement, CP!FlatElement, C!EmitKey, CP!EmitKey, C!FlatMayClose, CP!FlatMayClose,
       C!FlatCloses, CP!FlatCloses, C!Flat, CP!Flat, C!FlatColon, CP!FlatColon, C!FlatValue,
       CP!FlatValue, C!CheckpointDue, CP!CheckpointDue, C!FlatComma, CP!FlatComma,
       C!FlatSeparator, CP!FlatSeparator, C!Root, CP!Root, C!MainEnd, CP!MainEnd, C!MainComma,
       CP!MainComma, C!Main, CP!Main, C!TrailingComma, CP!TrailingComma, C!MainKey,
       CP!MainKey, C!MainColon, CP!MainColon, C!CountElement, CP!CountElement, C!MainNext,
       CP!MainNext, C!MainValue, CP!MainValue, C!Step, CP!Step, C!InFlatLoop, CP!InFlatLoop,
       C!InMainLoop, CP!InMainLoop, C!Describes, CP!Describes, C!AncestorOf, CP!AncestorOf,
       C!CurrentOf, CP!CurrentOf, C!Innermost, CP!Innermost, C!Init, CP!Init

(* The parse is the same from either side.                                 *)
LEMMA SameParse ==
    ASSUME NEW s, NEW doc, NEW n
    PROVE  /\ DP!ParseStep(s, doc, n) = ParseStep(s, doc, n)
           /\ CP!ParseStep(s, doc, n) = ParseStep(s, doc, n)
BY Zenon
   DEF Openers, DP!Openers, CP!Openers, Closers, DP!Closers, CP!Closers, Delimiter,
       DP!Delimiter, CP!Delimiter, PlainScalars, DP!PlainScalars, CP!PlainScalars,
       NanKeywords, DP!NanKeywords, CP!NanKeywords, Scalars, DP!Scalars, CP!Scalars, Token,
       DP!Token, CP!Token, Quoted, DP!Quoted, CP!Quoted, KeyText, DP!KeyText, CP!KeyText,
       Kinds, DP!Kinds, CP!Kinds, KindOf, DP!KindOf, CP!KindOf, CloserOf, DP!CloserOf,
       CP!CloserOf, Accepted, DP!Accepted, CP!Accepted, ValueError, DP!ValueError,
       CP!ValueError, ParseErrors, DP!ParseErrors, CP!ParseErrors, Top, DP!Top, CP!Top, Pop,
       DP!Pop, CP!Pop, SetTop, DP!SetTop, CP!SetTop, Call, DP!Call, CP!Call, ScalarCall,
       DP!ScalarCall, CP!ScalarCall, KeyCall, DP!KeyCall, CP!KeyCall, BeginCall, DP!BeginCall,
       CP!BeginCall, EndCall, DP!EndCall, CP!EndCall, CheckpointCall, DP!CheckpointCall,
       CP!CheckpointCall, OneMoreValue, DP!OneMoreValue, CP!OneMoreValue, OneMoreKey,
       DP!OneMoreKey, CP!OneMoreKey, WithValue, DP!WithValue, CP!WithValue, Returning,
       DP!Returning, CP!Returning, Rejecting, DP!Rejecting, CP!Rejecting, Moving, DP!Moving,
       CP!Moving, Delivering, DP!Delivering, CP!Delivering, Behind, DP!Behind, CP!Behind,
       TakeScalar, DP!TakeScalar, CP!TakeScalar, Begun, DP!Begun, CP!Begun, TakeOpener,
       DP!TakeOpener, CP!TakeOpener, TakeValue, DP!TakeValue, CP!TakeValue, KeyError,
       DP!KeyError, CP!KeyError, TakeKey, DP!TakeKey, CP!TakeKey, TakeColon, DP!TakeColon,
       CP!TakeColon, TakeCloser, DP!TakeCloser, CP!TakeCloser, TakeFirst, DP!TakeFirst,
       CP!TakeFirst, TakeSeparator, DP!TakeSeparator, CP!TakeSeparator, TokenStep,
       DP!TokenStep, CP!TokenStep, ParseStep, DP!ParseStep, CP!ParseStep

(* So are the states of it.                                                *)
LEMMA SameStates == DP!ParseStates = ParseStates /\ CP!ParseStates = ParseStates
BY Zenon
   DEF ParseStates, DP!ParseStates, CP!ParseStates, Places, DP!Places, CP!Places, Container,
       DP!Container, CP!Container, CallRecord, DP!CallRecord, CP!CallRecord, Kinds, DP!Kinds,
       CP!Kinds, ParseErrors, DP!ParseErrors, CP!ParseErrors, Token, DP!Token, CP!Token,
       Delimiter, DP!Delimiter, CP!Delimiter, Scalars, DP!Scalars, CP!Scalars, PlainScalars,
       DP!PlainScalars, CP!PlainScalars, NanKeywords, DP!NanKeywords, CP!NanKeywords, Openers,
       DP!Openers, CP!Openers, Closers, DP!Closers, CP!Closers

(* And the first of them.                                                  *)
LEMMA SameUnread == DP!Unread = Unread /\ CP!Unread = Unread
BY Zenon DEF Unread, DP!Unread, CP!Unread

(* And the events of a log.                                                *)
LEMMA SameEventsOf ==
    ASSUME NEW log
    PROVE  DP!Delivered(log) = Delivered(log) /\ CP!Delivered(log) = Delivered(log)
BY Zenon
   DEF Delivered, DP!Delivered, CP!Delivered, Without, DP!Without, CP!Without, CallRecord,
       DP!CallRecord, CP!CallRecord, Kinds, DP!Kinds, CP!Kinds, Token, DP!Token, CP!Token,
       Delimiter, DP!Delimiter, CP!Delimiter, Scalars, DP!Scalars, CP!Scalars, PlainScalars,
       DP!PlainScalars, CP!PlainScalars, NanKeywords, DP!NanKeywords, CP!NanKeywords, Openers,
       DP!Openers, CP!Openers, Closers, DP!Closers, CP!Closers

(* And the sink's refusals.                                                *)
LEMMA SameRefusals ==
    ASSUME NEW log, NEW n
    PROVE  /\ RefusesAt(log, n) <=> DP!RefusesAt(log, n)
           /\ RefusesAt(log, n) <=> CP!RefusesAt(log, n)
BY SameEventsOf, Zenon DEF RefusesAt, DP!RefusesAt, CP!RefusesAt

(* What the documents and the period are assumed to be.                    *)
LEMMA SameAssumptions ==
    /\ DP!DocsAssumption /\ DP!CheckpointAssumption
    /\ CP!DocsAssumption /\ CP!CheckpointAssumption /\ CP!OptionsAssumption
<1>1. DP!DocsAssumption
  BY DocsAssumption
    DEF DP!DocsAssumption,
       Token, DP!Token, Delimiter, DP!Delimiter, Scalars, DP!Scalars, PlainScalars,
       DP!PlainScalars, NanKeywords, DP!NanKeywords, Openers, DP!Openers, Closers, DP!Closers
<1>2. CP!DocsAssumption
  BY DEF CP!DocsAssumption,
       Token, CP!Token, Delimiter, CP!Delimiter, Scalars, CP!Scalars, PlainScalars,
       CP!PlainScalars, NanKeywords, CP!NanKeywords, Openers, CP!Openers, Closers, CP!Closers
<1>3. DP!CheckpointAssumption /\ CP!CheckpointAssumption
  BY CheckpointAssumption DEF DP!CheckpointAssumption, CP!CheckpointAssumption
<1>4. CP!OptionsAssumption
  BY DEF CP!OptionsAssumption, Strict
<1>. QED
  BY <1>1, <1>2, <1>3, <1>4

-----------------------------------------------------------------------------
(* What the driver and the cursor show of a state of the parse.            *)
DriverShows(s) == IsState(s, DP!Place, dpos, dopen, dvals, dcalls, doutcome, derrorAt)
CursorShows(s) == IsState(s, CP!Place, cpos, copen, cvals, ccalls, coutcome, cerrorAt)

(* The two views of it.                                                    *)
LEMMA SameShows ==
    ASSUME NEW s
    PROVE  /\ DriverShows(s) <=> DP!Shows(s)
           /\ CursorShows(s) <=> CP!Shows(s)
BY SameStates, SameEventsOf, Zenon
   DEF DriverShows, CursorShows, DP!Shows, CP!Shows, IsState, DP!IsState, CP!IsState

(* And after a step.                                                       *)
LEMMA SameShowsNext ==
    ASSUME NEW s
    PROVE  /\ DriverShows(s)' <=> DP!Shows(s)'
           /\ CursorShows(s)' <=> CP!Shows(s)'
BY SameStates, SameEventsOf, Zenon
   DEF DriverShows, CursorShows, DP!Shows, CP!Shows, IsState, DP!IsState, CP!IsState

(* The cursor is somewhere in the run.                                     *)
CursorFollows(run, last) == \E k \in 0 .. last : CursorShows(run[k])

(* The driver has come to the end of the run, of which there is one for    *)
(* the document and the limit; the cursor, if its turn has come, is in it. *)
OneRun ==
    doutcome # "none" =>
        \E last \in Nat : \E run :
            /\ IsParse(run, last, ddoc, limit)
            /\ DriverShows(run[last])
            /\ coutcome # "none" => CursorFollows(run, last)

(* Who has had a turn.                                                     *)
Turns ==
    /\ doutcome \in {"none", "parsing"} => coutcome = "none"
    /\ coutcome # "none" => cdoc = ddoc
    /\ copts = Strict

Engines == DP!IInv /\ CP!CInv /\ CP!SeparatorCounted

DInv == Engines /\ Turns /\ OneRun

-----------------------------------------------------------------------------
(* The parse goes one step on.                                             *)
LEMMA LongerRun ==
    ASSUME NEW last \in Nat, NEW run, NEW doc, NEW n, IsParse(run, last, doc, n),
           run[last].outcome = "parsing", NEW t \in ParseStates,
           t = ParseStep(run[last], doc, n),
           NEW longer, longer = [i \in 0 .. last + 1 |-> IF i = last + 1 THEN t ELSE run[i]]
    PROVE  /\ IsParse(longer, last + 1, doc, n)
           /\ longer[last + 1] = t
<1>1. run \in [0 .. last -> ParseStates]
  BY DEF IsParse
<1>2. longer \in [0 .. last + 1 -> ParseStates]
  BY <1>1
<1>3. longer[0] = Unread
  <2>1. run[0] = Unread
    BY DEF IsParse
  <2>. QED
    BY <2>1
<1>4. ASSUME NEW i \in 0 .. (last + 1) - 1
      PROVE  longer[i].outcome = "parsing" /\ longer[i + 1] = ParseStep(longer[i], doc, n)
  <2>1. i \in 0 .. last /\ longer[i] = run[i]
    BY <1>4
  <2>2. CASE i = last
    BY <2>1, <2>2
  <2>3. CASE i # last
    <3>1. i \in 0 .. last - 1 /\ i + 1 \in 0 .. last /\ longer[i + 1] = run[i + 1]
      BY <2>1, <2>3
    <3>2. run[i].outcome = "parsing" /\ run[i + 1] = ParseStep(run[i], doc, n)
      BY <3>1, Zenon DEF IsParse
    <3>. QED
      BY <2>1, <3>1, <3>2
  <2>. QED
    BY <2>2, <2>3
<1>5. longer[last + 1] = t
  OBVIOUS
<1>. QED
  BY <1>2, <1>3, <1>4, <1>5 DEF IsParse

(* The stack the one leaves is one for the other.                          *)
LEMMA SharedStack ==
    ASSUME Engines'
    PROVE  stack' \in Seq(DP!Frames) /\ stack' \in Seq(CP!Frames)
BY DEF Engines, DP!IInv, DP!TypeOK, CP!CInv, CP!TypeOK

(* Nothing has been parsed.                                                *)
LEMMA InitDInv == Init => DInv
<1>. SUFFICES ASSUME Init PROVE DInv
  OBVIOUS
<1>1. DP!Init /\ CP!Init
  BY SameDriver, SameCursor, Zenon DEF Init
<1>2. DP!IInv /\ CP!CInv /\ CP!SeparatorCounted
  BY <1>1, SameAssumptions, DP!InitIInv, CP!InitCInv, CP!InitCounted
<1>3. doutcome = "none" /\ coutcome = "none" /\ copts = Strict
  BY <1>1 DEF DP!Init, CP!Init, CP!Strict, Strict
<1>. QED
  BY <1>2, <1>3 DEF DInv, Engines, Turns, OneRun

-----------------------------------------------------------------------------
(* The engine whose turn it is not keeps its invariant.                    *)
LEMMA DriverIdle ==
    ASSUME Engines, doutcome # "parsing", UNCHANGED dVars, CP!CInv'
    PROVE  DP!IInv'
<1>1. stack' \in Seq(DP!Frames)
  BY DEF CP!CInv, CP!TypeOK, CP!Frames, DP!Frames, CP!Kinds, DP!Kinds
<1>2. UNCHANGED <<ddoc, dpos, dmark, dcnt, dkind, dpc, doutcome, derrorAt, dopen, dvals, dcalls>>
  BY DEF dVars
<1>. QED
  BY <1>1, <1>2, SameAssumptions, DP!IdleStep DEF Engines

(* Likewise the cursor.                                                    *)
LEMMA CursorIdle ==
    ASSUME Engines, coutcome # "parsing", UNCHANGED cVars, DP!IInv'
    PROVE  CP!CInv' /\ CP!SeparatorCounted'
<1>1. stack' \in Seq(CP!Frames)
  BY DEF DP!IInv, DP!TypeOK, CP!Frames, DP!Frames, CP!Kinds, DP!Kinds
<1>2. UNCHANGED <<cdoc, copts, cpos, cmark, ccnt, ckind, cflat, cpc, coutcome, cerrorAt,
                  copen, cvals, ccalls>>
  BY DEF cVars
<1>3. CP!CInv'
  BY <1>1, <1>2, SameAssumptions, CP!IdleStep DEF Engines
<1>. QED
  BY <1>2, <1>3 DEF Engines, CP!SeparatorCounted

(* The engine whose turn it is keeps its own.                              *)
LEMMA DriverKeeps ==
    ASSUME Engines, D!Start \/ D!Step \/ D!Collect
    PROVE  DP!IInv'
<1>1. [DP!Next]_(DP!vars)
  BY SameDriver, Zenon DEF DP!Next
<1>. QED
  BY <1>1, SameAssumptions, DP!NextIInv DEF Engines

(* Likewise the cursor.                                                    *)
LEMMA CursorKeeps ==
    ASSUME Engines, C!Start \/ C!Step \/ C!Collect
    PROVE  CP!CInv' /\ CP!SeparatorCounted'
<1>1. [CP!Next]_(CP!vars)
  BY SameCursor, Zenon DEF CP!Next
<1>. QED
  BY <1>1, SameAssumptions, CP!NextCInv, CP!NextCounted DEF Engines

(* What an engine shows is its own.                                        *)
LEMMA ShowsKept ==
    ASSUME NEW s
    PROVE  /\ UNCHANGED dVars => (DriverShows(s)' <=> DriverShows(s))
           /\ UNCHANGED cVars => (CursorShows(s)' <=> CursorShows(s))
<1>1. UNCHANGED dVars => (DriverShows(s)' <=> DriverShows(s))
  BY Zenon DEF dVars, DriverShows, DP!Place
<1>2. UNCHANGED cVars => (CursorShows(s)' <=> CursorShows(s))
  BY Zenon DEF cVars, CursorShows, CP!Place, CP!FlatPlace
<1>. QED
  BY <1>1, <1>2

(* The driver's parse begins: a run of no step.                            *)
LEMMA StartDriverStep ==
    ASSUME DInv, StartDriver
    PROVE  DInv'
<1>1. DP!Start /\ DP!IInv /\ coutcome = "none" /\ UNCHANGED cVars
  BY SameDriver DEF StartDriver, DInv, Engines
<1>2. Engines'
  BY DriverKeeps, CursorIdle DEF StartDriver, DInv, Engines
<1>3. UNCHANGED <<coutcome, cdoc, copts>>
  BY <1>1 DEF cVars
<1>4. Turns'
  BY <1>1, <1>3 DEF DInv, Turns
<1>5. DriverShows(Unread)'
  BY <1>1, SameAssumptions, SameUnread, SameShowsNext, DP!StartShows
<1>6. OneRun'
  <2>. DEFINE run == [i \in 0 .. 0 |-> Unread]
  <2>1. IsParse(run, 0, ddoc', limit')
    <3>1. Unread \in ParseStates
      BY <1>5 DEF DriverShows, IsState
    <3>. QED
      BY <3>1 DEF IsParse
  <2>2. run[0] = Unread
    OBVIOUS
  <2>. HIDE DEF run
  <2>3. IsState(run[0], DP!Place', dpos', dopen', dvals', dcalls', doutcome', derrorAt')
    BY <1>5, <2>2, Zenon DEF DriverShows
  <2>. QED
    BY <1>1, <1>3, <2>1, <2>3 DEF OneRun, DriverShows
<1>. QED
  BY <1>2, <1>4, <1>6 DEF DInv

(* The driver's parse goes on: so does the run.                            *)
LEMMA StepDriverStep ==
    ASSUME DInv, StepDriver
    PROVE  DInv'
<1>1. /\ DP!Step /\ DP!IInv /\ DP!RefusesAt(dcalls', limit) /\ UNCHANGED cVars
      /\ UNCHANGED limit
  BY SameDriver, SameRefusals DEF StepDriver, DInv, Engines
<1>2. doutcome = "parsing" /\ UNCHANGED ddoc /\ coutcome = "none"
  BY <1>1, SameAssumptions, DP!StepRuns DEF DInv, Turns
<1>3. UNCHANGED <<coutcome, cdoc, copts>>
  BY <1>1 DEF cVars
<1>4. Engines'
  BY <1>2, DriverKeeps, CursorIdle DEF StepDriver, DInv, Engines
<1>5. Turns'
  BY <1>2, <1>3 DEF DInv, Turns
<1>6. OneRun'
  <2>1. PICK last \in Nat : \E run :
            IsParse(run, last, ddoc, limit) /\ DriverShows(run[last])
    BY <1>2 DEF DInv, OneRun
  <2>2. PICK run : IsParse(run, last, ddoc, limit) /\ DriverShows(run[last])
    BY <2>1
  <2>3. PICK s : s = run[last]
    OBVIOUS
  <2>4. PICK t : t = DP!ParseStep(s, ddoc, limit)
    OBVIOUS
  <2>5. DP!Shows(s)
    BY <2>2, <2>3, SameShows, Zenon
  <2>6. DP!Shows(t)'
    BY <1>1, <2>4, <2>5, SameAssumptions, SpillsAssumption, DP!StepFollows
  <2>7. DriverShows(t)'
    BY <2>6, SameShowsNext, Zenon
  <2>8. t \in ParseStates /\ s.outcome = "parsing" /\ t = ParseStep(s, ddoc, limit)
    BY <1>2, <2>2, <2>3, <2>4, <2>7, SameParse DEF DriverShows, IsState
  <2>. DEFINE longer == [i \in 0 .. last + 1 |-> IF i = last + 1 THEN t ELSE run[i]]
  <2>9. IsParse(longer, last + 1, ddoc, limit) /\ longer[last + 1] = t
    <3>1. longer = [i \in 0 .. last + 1 |-> IF i = last + 1 THEN t ELSE run[i]]
      OBVIOUS
    <3>2. run[last].outcome = "parsing" /\ t = ParseStep(run[last], ddoc, limit)
      BY <2>3, <2>8, Zenon
    <3>. HIDE DEF longer
    <3>. QED
      BY <2>2, <2>8, <3>1, <3>2, LongerRun
  <2>. HIDE DEF longer
  <2>10. IsState(longer[last + 1], DP!Place', dpos', dopen', dvals', dcalls', doutcome', derrorAt')
    BY <2>7, <2>9, Zenon DEF DriverShows
  <2>11. last + 1 \in Nat /\ coutcome' = "none" /\ IsParse(longer, last + 1, ddoc', limit')
    <3>1. IsParse(longer, last + 1, ddoc', limit') <=> IsParse(longer, last + 1, ddoc, limit)
      <4>1. ddoc' = ddoc /\ limit' = limit
        BY <1>1, <1>2
      <4>. QED
        BY <4>1, Zenon
    <3>. QED
      BY <1>2, <1>3, <2>9, <3>1
  <2>. QED
    BY <2>10, <2>11 DEF OneRun, DriverShows
<1>. QED
  BY <1>4, <1>5, <1>6 DEF DInv

(* The cursor's turn: it is where the run begins.                          *)
LEMMA StartCursorStep ==
    ASSUME DInv, StartCursor
    PROVE  DInv'
<1>1. /\ CP!Start /\ CP!CInv /\ UNCHANGED dVars /\ UNCHANGED limit
      /\ doutcome \notin {"none", "parsing"} /\ cdoc' = ddoc /\ copts' = Strict
  BY SameCursor DEF StartCursor, DInv, Engines, Returned, CP!Start
<1>2. UNCHANGED <<ddoc, doutcome>>
  BY <1>1 DEF dVars
<1>3. Engines'
  BY <1>1, CursorKeeps, DriverIdle DEF StartCursor, DInv, Engines
<1>4. Turns'
  BY <1>1, <1>2 DEF Turns
<1>5. CursorShows(Unread)'
  BY <1>1, SameAssumptions, SameUnread, SameShowsNext, CP!StartShows
<1>6. PICK last \in Nat : \E run : IsParse(run, last, ddoc, limit) /\ DriverShows(run[last])
  BY <1>1 DEF DInv, OneRun
<1>7. PICK run : IsParse(run, last, ddoc, limit) /\ DriverShows(run[last])
  BY <1>6
<1>8. PICK s : s = run[last]
  OBVIOUS
<1>9. DriverShows(s)'
  BY <1>1, <1>7, <1>8, ShowsKept, Zenon
<1>10. IsState(run[last], DP!Place', dpos', dopen', dvals', dcalls', doutcome', derrorAt')
  BY <1>8, <1>9, Zenon DEF DriverShows
<1>11. 0 \in 0 .. last /\ run[0] = Unread
  BY <1>7 DEF IsParse
<1>12. IsState(run[0], CP!Place', cpos', copen', cvals', ccalls', coutcome', cerrorAt')
  BY <1>5, <1>11, Zenon DEF CursorShows
<1>13. OneRun'
  BY <1>1, <1>2, <1>7, <1>10, <1>11, <1>12
     DEF OneRun, CursorFollows, DriverShows, CursorShows
<1>. QED
  BY <1>3, <1>4, <1>13 DEF DInv

(* A step of the cursor: it stays where it is in the run or goes on in it. *)
LEMMA StepCursorStep ==
    ASSUME DInv, StepCursor
    PROVE  DInv'
<1>1. /\ CP!Step /\ CP!CInv /\ CP!SeparatorCounted /\ CP!RefusesAt(ccalls', limit)
      /\ UNCHANGED dVars /\ UNCHANGED limit
  BY SameCursor, SameRefusals DEF StepCursor, DInv, Engines
<1>2. coutcome = "parsing" /\ UNCHANGED <<cdoc, copts>> /\ copts = CP!Strict
  BY <1>1, SameAssumptions, CP!StepRuns DEF DInv, Turns, Strict, CP!Strict
<1>3. doutcome \notin {"none", "parsing"} /\ cdoc = ddoc
  BY <1>2 DEF DInv, Turns
<1>4. UNCHANGED <<ddoc, doutcome>>
  BY <1>1 DEF dVars
<1>5. Engines'
  BY <1>1, <1>3, CursorKeeps, DriverIdle DEF StepCursor, DInv, Engines
<1>6. Turns'
  BY <1>2, <1>3, <1>4 DEF DInv, Turns
<1>7. PICK last \in Nat : \E run : /\ IsParse(run, last, ddoc, limit) /\ DriverShows(run[last])
                                   /\ CursorFollows(run, last)
  BY <1>2, <1>3 DEF DInv, OneRun
<1>8. PICK run : /\ IsParse(run, last, ddoc, limit) /\ DriverShows(run[last])
                 /\ CursorFollows(run, last)
  BY <1>7
<1>9. PICK k \in 0 .. last : CursorShows(run[k])
  BY <1>8 DEF CursorFollows
<1>10. PICK s : s = run[k]
  OBVIOUS
<1>11. PICK t : t = CP!ParseStep(s, cdoc, limit)
  OBVIOUS
<1>12. CP!Shows(s)
  BY <1>9, <1>10, SameShows, Zenon
<1>13. CP!Shows(s)' \/ CP!Shows(t)'
  BY <1>1, <1>2, <1>11, <1>12, SameAssumptions, SpillsAssumption, CP!StepFollows
<1>14. CursorShows(s)' \/ CursorShows(t)'
  BY <1>13, SameShowsNext, Zenon
<1>15. k < last /\ run[k + 1] = t
  <2>1. s.outcome = "parsing"
    BY <1>2, <1>9, <1>10 DEF CursorShows, IsState
  <2>2. run[last].outcome # "parsing"
    BY <1>3, <1>8 DEF DriverShows, IsState
  <2>3. k # last
    BY <1>10, <2>1, <2>2
  <2>4. k \in 0 .. last - 1
    BY <2>3
  <2>5. run[k + 1] = ParseStep(s, cdoc, limit)
    BY <1>3, <1>8, <1>10, <2>4, Zenon DEF IsParse
  <2>. QED
    BY <1>11, <2>4, <2>5, SameParse
<1>16. \E m \in 0 .. last : IsState(run[m], CP!Place', cpos', copen', cvals', ccalls', coutcome',
                                   cerrorAt')
  <2>1. k + 1 \in 0 .. last
    BY <1>15
  <2>2. CASE CursorShows(s)'
    BY <1>10, <2>2, Zenon DEF CursorShows
  <2>3. CASE CursorShows(t)'
    BY <1>15, <2>1, <2>3, Zenon DEF CursorShows
  <2>. QED
    BY <1>14, <2>2, <2>3
<1>17. PICK u : u = run[last]
  OBVIOUS
<1>18. DriverShows(u)'
  BY <1>1, <1>8, <1>17, ShowsKept, Zenon
<1>19. IsState(run[last], DP!Place', dpos', dopen', dvals', dcalls', doutcome', derrorAt')
  BY <1>17, <1>18, Zenon DEF DriverShows
<1>20. OneRun'
  BY <1>1, <1>4, <1>8, <1>16, <1>19 DEF OneRun, CursorFollows, DriverShows, CursorShows
<1>. QED
  BY <1>5, <1>6, <1>20 DEF DInv

(* Both results used: nothing is left of either parse.                     *)
LEMMA CollectStep ==
    ASSUME DInv, CollectBoth
    PROVE  DInv'
<1>1. Engines'
  BY DriverKeeps, CursorKeeps DEF CollectBoth, DInv, Engines
<1>2. doutcome' = "none" /\ coutcome' = "none" /\ copts' = Strict
  BY DEF CollectBoth, D!Collect, C!Collect, C!Strict, Strict
<1>. QED
  BY <1>1, <1>2 DEF DInv, Turns, OneRun

(* The invariant is inductive.                                             *)
LEMMA NextDInv ==
    ASSUME DInv, [Next]_vars
    PROVE  DInv'
<1>1. CASE UNCHANGED vars
  <2>1. UNCHANGED <<stack, ddoc, dpos, dmark, dcnt, dkind, dpc, doutcome, derrorAt, dopen, dvals,
                    dcalls>> /\ UNCHANGED limit /\ UNCHANGED dVars
    BY <1>1 DEF vars, dVars
  <2>2. UNCHANGED <<cdoc, copts, cpos, cmark, ccnt, ckind, cflat, cpc, coutcome, cerrorAt,
                    copen, cvals, ccalls>> /\ UNCHANGED cVars
    BY <1>1 DEF vars, cVars
  <2>3. DP!IInv'
    <3>1. [DP!Next]_(DP!vars)
      BY <2>1 DEF DP!vars
    <3>. QED
      BY <3>1, SameAssumptions, DP!NextIInv DEF DInv, Engines
  <2>4. CP!CInv' /\ CP!SeparatorCounted'
    <3>1. [CP!Next]_(CP!vars)
      BY <2>1, <2>2 DEF CP!vars
    <3>. QED
      BY <3>1, SameAssumptions, CP!NextCInv, CP!NextCounted DEF DInv, Engines
  <2>5. Turns'
    BY <2>1, <2>2 DEF DInv, Turns
  <2>6. OneRun'
    <3>1. ASSUME NEW run, NEW last
          PROVE  /\ IsParse(run, last, ddoc, limit)' <=> IsParse(run, last, ddoc, limit)
                 /\ DriverShows(run[last])' <=> DriverShows(run[last])
                 /\ CursorFollows(run, last)' <=> CursorFollows(run, last)
      <4>1. IsParse(run, last, ddoc, limit)' <=> IsParse(run, last, ddoc, limit)
        BY <2>1, Zenon
      <4>2. DriverShows(run[last])' <=> DriverShows(run[last])
        BY <2>1, ShowsKept, Zenon
      <4>3. CursorFollows(run, last)' <=> CursorFollows(run, last)
        BY <2>2, ShowsKept, Zenon DEF CursorFollows
      <4>. QED
        BY <4>1, <4>2, <4>3
    <3>. QED
      BY <2>1, <2>2, <3>1, Zenon DEF DInv, OneRun
  <2>. QED
    BY <2>3, <2>4, <2>5, <2>6 DEF DInv, Engines
<1>. QED
  BY <1>1, StartDriverStep, StepDriverStep, StartCursorStep, StepCursorStep, CollectStep DEF Next

-----------------------------------------------------------------------------
(* "must produce identical event streams (or the same rejection) for every *)
(* input" (parse_differential.rs 1-3): for every document, every limit and *)
(* every checkpoint period the two push parsers deliver the same events    *)
(* and return the same result at the same place.                           *)
THEOREM EnginesAgree == Spec => []SameEvents
<1>1. DInv => SameEvents
  <2>. SUFFICES ASSUME DInv, BothReturned
                PROVE  /\ Delivered(dcalls) = Delivered(ccalls)
                       /\ doutcome = coutcome /\ derrorAt = cerrorAt
    BY DEF SameEvents
  <2>1. doutcome \notin {"none", "parsing"} /\ coutcome \notin {"none", "parsing"}
    BY DEF BothReturned, Returned
  <2>2. PICK last \in Nat : \E run : /\ IsParse(run, last, ddoc, limit)
                                     /\ DriverShows(run[last]) /\ CursorFollows(run, last)
    BY <2>1 DEF DInv, OneRun
  <2>3. PICK run : /\ IsParse(run, last, ddoc, limit)
                   /\ DriverShows(run[last]) /\ CursorFollows(run, last)
    BY <2>2
  <2>4. PICK k \in 0 .. last : CursorShows(run[k])
    BY <2>3 DEF CursorFollows
  <2>5. k = last
    <3>1. run[k].outcome # "parsing"
      BY <2>1, <2>4 DEF CursorShows, IsState
    <3>2. k \notin 0 .. last - 1
      BY <2>3, <3>1, Zenon DEF IsParse
    <3>. QED
      BY <3>2
  <2>. QED
    BY <2>1, <2>3, <2>4, <2>5 DEF DriverShows, CursorShows, IsState
<1>. QED
  BY <1>1, InitDInv, NextDInv, PTL DEF Spec
=============================================================================
