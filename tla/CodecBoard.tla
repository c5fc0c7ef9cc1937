------------------------------ MODULE CodecBoard ------------------------------
(***************************************************************************)
(* The board description and the audio codecs (components/codec_board):    *)
(* cfg_parse.c reads the section of the board line by line, codec_board.c  *)
(* keeps it, codec_init.c builds the codec devices from it over I2C and    *)
(* I2S, and takes them down.                                               *)
(*                                                                         *)
(* One task calls.  A call is carried out in the steps that may fail.      *)
(***************************************************************************)
EXTENDS Integers, Sequences, FiniteSets

CONSTANTS
  Boards,      \* what board_cfg.txt has: a sequence of lines for each name
  reuse_dev,   \* of codec_init_cfg_t
  Modes,       \* the directions whose mode in it is not CODEC_I2S_MODE_NONE
  MaxCalls     \* bound: calls

(***************************************************************************)
(* A line has a type, the I2C and the I2S port it names, {} for none, a    *)
(* codec, and for an LCD its attributes: the bus and the pins on it.       *)
(* "Board" is the heading of the next section.                             *)
(***************************************************************************)
MAX_I2C_NUM == 2
MAX_I2S_NUM == 2
MAX_CODEC_NUM == 2
Ports == 0..MAX_I2S_NUM - 1
Section0 == [i2c |-> 0, i2s |-> 0, codec |-> <<>>, sdcard_num |-> 0, camera_num |-> 0,
             lcd |-> {}]

VARIABLES
  section,   \* codec_section
  codec,     \* codec_board.c has a section
  lines,     \* lines that parse_cfg has before it
  i2c,       \* ports of the I2C bus that are set up
  modes,     \* that of Modes which the application gives, the same in every call
  i2s,       \* i2s_keep of each port: whether there is one, and the directions
             \* whose channel was set up
  res,       \* codec_res: the objects it points to
  live,      \* the objects that exist
  todo,      \* the steps of init_codec and deinit_codec to come
  calls,
  strange    \* history: "lost" the last pointer to an object was overwritten, "failed"
             \* a port is kept whose set-up failed, "retried" init_codec was called
             \* again after that, or after it had built something in vain

board == <<section, codec, lines, modes, i2c, i2s, res, live, todo, calls, strange>>

NoKeep == [p \in Ports |-> [kept |-> FALSE, set |-> {}]]
NoRes == [inited |-> FALSE, has |-> {}]
Idle == lines = <<>> /\ todo = <<>>

BoardInit ==
  /\ section = Section0
  /\ codec = FALSE /\ lines = <<>>
  /\ modes \in Modes
  /\ i2c = {} /\ i2s = NoKeep
  /\ res = NoRes /\ live = {} /\ todo = <<>>
  /\ calls = 0 /\ strange = {}

CallStarts == Idle /\ calls < MaxCalls /\ calls' = calls + 1

-----------------------------------------------------------------------------
(* cfg_parse.c *)

\* get_codec_section, until a section was accepted.
set_codec_board_type(name) ==
  /\ CallStarts /\ ~codec
  /\ section' = Section0
  /\ lines' = IF name \in DOMAIN Boards THEN Append(Boards[name], [type |-> "Board"]) ELSE <<>>
  /\ UNCHANGED <<codec, modes, i2c, i2s, res, live, todo, strange>>

Parsing == lines # <<>>
Line == Head(lines)
Refused == section' = Section0 /\ lines' = <<>> /\ UNCHANGED codec
Accepted(data) == section' = data /\ lines' = Tail(lines) /\ UNCHANGED codec
ParseStep == UNCHANGED <<modes, i2c, i2s, res, live, todo, calls, strange>>

\* parse_section finds the heading of the next board.
SectionEnds ==
  /\ Parsing /\ Line.type = "Board"
  /\ lines' = <<>> /\ codec' = TRUE
  /\ UNCHANGED section /\ ParseStep

fill_i2c_cfg ==
  /\ Parsing /\ Line.type = "i2c"
  /\ IF section.i2c >= MAX_I2C_NUM THEN Refused
     ELSE Accepted([section EXCEPT !.i2c = @ + 1])
  /\ ParseStep

\* The limit is that of the I2C ports, which is the same.
fill_i2s_cfg ==
  /\ Parsing /\ Line.type = "i2s"
  /\ IF section.i2s >= MAX_I2C_NUM THEN Refused
     ELSE Accepted([section EXCEPT !.i2s = @ + 1])
  /\ ParseStep

Port(named) == IF named = {} THEN 0 ELSE CHOOSE p \in named : TRUE
CodecLine == [dir |-> Line.type, i2c |-> Port(Line.i2c), i2s |-> Port(Line.i2s), codec |-> Line.codec]

\* A port that a codec names must be listed before it; one that it does not name
\* is 0, and not looked up.
fill_codec_cfg ==
  /\ Parsing /\ Line.type \in {"in", "out", "in_out"}
  /\ IF \/ Len(section.codec) >= MAX_CODEC_NUM
        \/ \E p \in Line.i2c : p >= section.i2c
        \/ \E p \in Line.i2s : p >= section.i2s
        \/ Line.codec = "unknown"
       THEN Refused
       ELSE Accepted([section EXCEPT !.codec = Append(@, CodecLine)])
  /\ ParseStep

fill_sdcard_cfg ==
  /\ Parsing /\ Line.type = "sdcard"
  /\ IF section.sdcard_num >= 1 THEN Refused ELSE Accepted([section EXCEPT !.sdcard_num = @ + 1])
  /\ ParseStep

fill_camera_cfg ==
  /\ Parsing /\ Line.type = "camera"
  /\ IF section.camera_num >= 1 THEN Refused ELSE Accepted([section EXCEPT !.camera_num = @ + 1])
  /\ ParseStep

\* The pins are known by their bus: those that stand before it are passed over.
PinsRead == \E i, j \in DOMAIN Line.attrs : i < j /\ Line.attrs[i] = "bus" /\ Line.attrs[j] = "pins"
fill_lcd_cfg ==
  /\ Parsing /\ Line.type = "lcd"
  /\ IF section.lcd # {} THEN Refused ELSE Accepted([section EXCEPT !.lcd = {[pins |-> PinsRead]}])
  /\ ParseStep

-----------------------------------------------------------------------------
(* codec_init.c.  init_codec looks for the first codec of each direction.   *)

Dirs == [out |-> {"out", "in_out"}, in |-> {"in", "in_out"}]
Of(dir) == {i \in DOMAIN section.codec : section.codec[i].dir \in Dirs[dir]}
Cfg(dir) == section.codec[CHOOSE i \in Of(dir) : \A j \in Of(dir) : i <= j]
has(dir) == codec /\ Of(dir) # {}
same_i2s == has("in") /\ has("out") /\ Cfg("in").i2s = Cfg("out").i2s
same_codec == same_i2s /\ Cfg("in").codec = Cfg("out").codec

Do(step, arg) == <<[step |-> step, arg |-> arg]>>
Buses(dir) == IF has(dir) THEN Do("i2c", Cfg(dir).i2c) \o Do("i2s", Cfg(dir).i2s) ELSE <<>>

\* The I2C control of a codec; a DUMMY codec has none.
Control(dir, ctrl_if) == IF Cfg(dir).codec = "DUMMY" THEN <<>> ELSE Do("new", ctrl_if)
OutSteps ==
  IF ~has("out") THEN <<>>
  ELSE Do("new", "data_if") \o Control("out", "out_ctrl_if") \o Do("new", "out_codec_if")
       \o Do("dev", "play_dev") \o (IF same_codec /\ ~reuse_dev THEN Do("dev", "record_dev") ELSE <<>>)
InSteps ==
  IF ~has("in") \/ same_codec THEN <<>>
  ELSE (IF same_i2s THEN <<>> ELSE Do("new", "data_in_if")) \o Control("in", "in_ctrl_if")
       \o Do("new", "in_codec_if") \o Do("dev", "record_dev")

init_codec ==
  /\ CallStarts /\ ~res.inited /\ (has("out") \/ has("in"))
  /\ todo' = Do("i2c0", 0) \o Buses("out") \o Buses("in") \o Do("new", "gpio_if")
             \o OutSteps \o InSteps \o Do("end", 0)
  /\ strange' = IF res.has # {} \/ "failed" \in strange THEN strange \cup {"retried"}
                ELSE strange
  /\ UNCHANGED <<section, codec, lines, modes, i2c, i2s, res, live>>

Step(step) == todo # <<>> /\ Head(todo).step = step
Arg == Head(todo).arg
Goes == todo' = Tail(todo)
Fails == todo' = <<>>
InitStep == UNCHANGED <<section, codec, lines, modes, calls>>

\* _i2c_init.  The board's pins are looked up with `port > i2c_num'; the result
\* for port 0 is not looked at, and a port of -1 needs none.
I2cInit ==
  /\ Step("i2c0") \/ Step("i2c")
  /\ \/ Arg \in i2c \cup {-1} /\ Goes /\ UNCHANGED i2c
     \/ /\ Arg \notin i2c \cup {-1}
        /\ \/ Arg <= section.i2c /\ i2c' = i2c \cup {Arg} /\ Goes
           \/ UNCHANGED i2c /\ (IF Step("i2c0") THEN Goes ELSE Fails)
  /\ UNCHANGED <<i2s, res, live, strange>> /\ InitStep

\* The directions a port is set up for: both when in and out share it.
Asked(p) == {dir \in modes : has(dir) /\ Cfg(dir).i2s = p}

\* Fault: the result of the first direction is returned.
SucceedsFirst(asked, set) == asked = {} \/ (IF "out" \in asked THEN "out" ELSE "in") \in set

\* What _i2s_init returns is the result of the last direction it has set up; with
\* none to set up the port is kept without a channel, and that is no error.
Succeeds(asked, set) == asked = {} \/ (IF "in" \in asked THEN "in" ELSE "out") \in set

\* _i2s_init: a port that there is was set up before, whatever came of it.
I2sInit ==
  /\ Step("i2s")
  /\ \/ i2s[Arg].kept /\ Goes /\ UNCHANGED <<i2s, strange>>
     \/ /\ ~i2s[Arg].kept /\ Arg <= section.i2s
        /\ \E set \in SUBSET Asked(Arg) :
             /\ i2s' = [i2s EXCEPT ![Arg] = [kept |-> TRUE, set |-> set]]
             /\ IF Succeeds(Asked(Arg), set)
                  THEN Goes /\ UNCHANGED strange
                  ELSE Fails /\ strange' = strange \cup {"failed"}
     \/ ~i2s[Arg].kept /\ Fails /\ UNCHANGED <<i2s, strange>>
  /\ UNCHANGED <<i2c, res, live>> /\ InitStep

\* The interface is built, or NULL is kept and noticed by nobody.
Built(obj) ==
  /\ res' = [res EXCEPT !.has = @ \cup {obj}]
  /\ live' = live \cup {obj}
  /\ strange' = IF obj \in live THEN strange \cup {"lost"} ELSE strange
New ==
  /\ Step("new") \/ Step("dev")
  /\ \/ Built(Arg)
     \/ /\ res' = [res EXCEPT !.has = @ \ {Arg}]
        /\ strange' = (IF Arg \in res.has THEN strange \cup {"lost"} ELSE strange)
        /\ UNCHANGED live
  /\ Goes
  /\ UNCHANGED <<i2c, i2s>> /\ InitStep

Devices == {"play_dev", "record_dev"}
InitEnds ==
  /\ Step("end")
  /\ res' = [res EXCEPT !.inited = res.has \cap Devices # {}]
  /\ Goes
  /\ UNCHANGED <<i2c, i2s, live, strange>> /\ InitStep

\* Fault: the codec interfaces are left behind.
DeinitSome ==
  Do("delete", "play_dev") \o Do("delete", "record_dev") \o Do("delete", "in_ctrl_if")
  \o Do("delete", "out_ctrl_if") \o Do("delete", "data_if") \o Do("delete", "data_in_if")
  \o Do("delete", "gpio_if") \o Do("buses", 0)

\* With reuse_dev the record device is the play device, deleted once.
DeinitSteps ==
  Do("delete", "play_dev") \o Do("delete", "record_dev") \o Do("delete", "in_codec_if")
  \o Do("delete", "out_codec_if") \o Do("delete", "in_ctrl_if") \o Do("delete", "out_ctrl_if")
  \o Do("delete", "data_if") \o Do("delete", "data_in_if") \o Do("delete", "gpio_if")
  \o Do("buses", 0)

deinit_codec ==
  /\ CallStarts /\ res.inited
  /\ todo' = DeinitSteps
  /\ UNCHANGED <<section, codec, lines, modes, i2c, i2s, res, live, strange>>

Delete ==
  /\ Step("delete") /\ Goes
  /\ live' = IF Arg \in res.has THEN live \ {Arg} ELSE live
  /\ res' = [res EXCEPT !.has = @ \ {Arg}]
  /\ UNCHANGED <<i2c, i2s, strange>> /\ InitStep

\* Each port of I2C, and with it that of I2S.
DeleteBuses ==
  /\ Step("buses") /\ Goes
  /\ i2c' = {} /\ i2s' = NoKeep
  /\ res' = NoRes
  /\ UNCHANGED <<live, strange>> /\ InitStep

BoardNext ==
  \/ \E name \in DOMAIN Boards \cup {"unknown"} : set_codec_board_type(name)
  \/ SectionEnds \/ fill_i2c_cfg \/ fill_i2s_cfg \/ fill_codec_cfg
  \/ fill_sdcard_cfg \/ fill_camera_cfg \/ fill_lcd_cfg
  \/ init_codec \/ I2cInit \/ I2sInit \/ New \/ InitEnds
  \/ deinit_codec \/ Delete \/ DeleteBuses

-----------------------------------------------------------------------------
(* Properties *)

Listed(c) == c.i2c < section.i2c /\ c.i2s < section.i2s

\* A codec the section is accepted with uses buses that the board lists, but for
\* those it does not name: they are port 0 even on a board without one.  A device
\* stands on a port that is there, and has its channel if one was asked for: but for
\* a playback that shares the port with a recording, whose failure the recording's
\* success hides.  deinit_codec leaves nothing behind, unless init_codec was called
\* again after it had failed.
AllBuilt == res.inited /\ Idle
Hidden(dir) == dir = "out" /\ same_i2s /\ "in" \in modes
BoardIsWhole ==
  /\ \A i \in DOMAIN section.codec :
       LET c == section.codec[i]
       IN  Listed(c) \/ (c.i2c <= 0 /\ section.i2c = 0) \/ (c.i2s = 0 /\ section.i2s = 0)
  /\ AllBuilt /\ "retried" \notin strange =>
       \A dir \in {"in", "out"} :
         has(dir) => LET port == i2s[Cfg(dir).i2s]
                     IN  port.kept /\ (dir \in modes /\ ~Hidden(dir) => dir \in port.set)
  /\ Step("buses") /\ "retried" \notin strange => live = {}
  /\ "lost" \in strange => "retried" \in strange
=============================================================================
