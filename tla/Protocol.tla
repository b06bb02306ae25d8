------------------------------- MODULE Protocol -------------------------------
(***************************************************************************)
(* Package barproto: what the bar is sent and what it sends back.          *)
(*                                                                         *)
(* A JSON object is a sequence of keys and values in the order written.    *)
(* A character is its code; 0 stands for an absent string or number.       *)
(***************************************************************************)
EXTENDS Lists

Quote == 34
Backslash == 92

(* Keys that are written only under a condition. *)
Key(k, v) == <<[key |-> k, val |-> v]>>
KeyIf(cond, k, v) == IF cond THEN Key(k, v) ELSE << >>

-----------------------------------------------------------------------------
(* Strings and colors.                                                     *)
Hex(d) == IF d < 10 THEN 48 + d ELSE 87 + d

(* Mutant: only what JSON quotes by a letter is escaped. *)
EscapedCharFew(c) ==
    CASE c \in {Quote, Backslash} -> <<Backslash, c>>
      [] c = 10 -> <<Backslash, 110>>
      [] c = 13 -> <<Backslash, 114>>
      [] c = 9 -> <<Backslash, 116>>
      [] OTHER -> <<c>>

EscapedChar(c) ==
    CASE c \in {Quote, Backslash} -> <<Backslash, c>>
      [] c = 10 -> <<Backslash, 110>>
      [] c = 13 -> <<Backslash, 114>>
      [] c = 9 -> <<Backslash, 116>>
      [] c < 32 /\ c \notin {9, 10, 13} -> <<Backslash, 117, 48, 48, Hex(c \div 16), Hex(c % 16)>>
      [] OTHER -> <<c>>

(* jsonString. *)
Escaped(s) == Fold([p \in Seq(Nat) \X Nat |-> p[1] \o EscapedChar(p[2])], << >>, s)
JsonString(s) == <<Quote>> \o Escaped(s) \o <<Quote>>

(* hexColor of the bytes r, g, b, a: the digits, without those of full alpha. *)
Digits(b) == <<b \div 16, b % 16>>
HexColor(c) == Digits(c[1]) \o Digits(c[2]) \o Digits(c[3]) \o (IF c[4] = 255 THEN << >> ELSE Digits(c[4]))

NoColor == <<0, 0, 0, 0>>

-----------------------------------------------------------------------------
(* Block.AppendJSON.  Texts are members of a set. *)
Border(v) == IF v = -1 THEN 0 ELSE v

Encode(b) ==
    Key("full_text", b.text)
    \o KeyIf(b.short # "", "short_text", b.short)
    \o KeyIf(b.color # NoColor, "color", HexColor(b.color))
    \o KeyIf(b.name # "", "name", b.name)
    \o KeyIf(b.instance # "", "instance", b.instance)
    \o KeyIf(b.background # NoColor, "background", HexColor(b.background))
    \o KeyIf(b.border # NoColor, "border", HexColor(b.border))
    \o KeyIf(b.top # 0, "border_top", Border(b.top))
    \o KeyIf(b.right # 0, "border_right", Border(b.right))
    \o KeyIf(b.bottom # 0, "border_bottom", Border(b.bottom))
    \o KeyIf(b.left # 0, "border_left", Border(b.left))
    \o (IF b.minWidthString # "" THEN Key("min_width", b.minWidthString)
        ELSE KeyIf(b.minWidth # 0, "min_width", b.minWidth))
    \o KeyIf(b.align # "", "align", b.align)
    \o KeyIf(b.urgent, "urgent", TRUE)
    \o Key("separator", b.separator)
    \o KeyIf(IF b.separator THEN b.sepWidth > 0 ELSE b.sepWidth >= 0, "separator_block_width", b.sepWidth)
    \o KeyIf(b.pango, "markup", "pango")

(* Init.AppendJSON. *)
EncodeInit(x) ==
    Key("version", 1) \o KeyIf(x.stop # 0, "stop_signal", x.stop)
    \o KeyIf(x.cont # 0, "cont_signal", x.cont) \o KeyIf(x.clicks, "click_events", TRUE)

(* Event.FromJSON: keys in any order, of which only the known ones count, and
   of one that is there more than once the last; all the modifiers named are
   set. *)
Has(pairs, k) == \E i \in DOMAIN pairs : pairs[i].key = k
At(pairs, k, default) ==
    LET last == CHOOSE i \in DOMAIN pairs :
                    pairs[i].key = k /\ \A j \in i + 1 .. Len(pairs) : pairs[j].key # k
    IN  IF Has(pairs, k) THEN pairs[last].val ELSE default

Modifiers == [Shift |-> 1, Control |-> 4, Mod1 |-> 8, Mod2 |-> 16, Mod3 |-> 32, Mod4 |-> 64, Mod5 |-> 128]

NoEvent == [name |-> "", instance |-> "", button |-> 0, modifiers |-> {}, x |-> 0, y |-> 0,
            relative_x |-> 0, relative_y |-> 0, output_x |-> 0, output_y |-> 0, width |-> 0, height |-> 0]

Named(pairs) ==
    {m \in DOMAIN Modifiers :
        \E i \in DOMAIN pairs : pairs[i].key = "modifiers" /\ \E n \in DOMAIN pairs[i].val : pairs[i].val[n] = m}

FromJSON(pairs) ==
    [k \in DOMAIN NoEvent |->
        IF k = "modifiers" THEN {Modifiers[m] : m \in Named(pairs)} ELSE At(pairs, k, NoEvent[k])]

-----------------------------------------------------------------------------
(* External: how i3bar reads what it is sent, of a key the last value too.  *)

(* A string up to its closing quote, and what follows. *)
Unhex(c) == IF c < 58 THEN c - 48 ELSE c - 87

Readings == [mode : {"text", "escape", "hex", "end", "bad"}, s : Seq(Int), n : 0 .. 3, val : Int, rest : Seq(Nat)]

Unread(mode, s, rest) == [mode |-> mode, s |-> s, n |-> 0, val |-> 0, rest |-> rest]
WithText(r, c) == Unread("text", Append(r.s, c), r.rest)

Read(r, c) ==
    CASE r.mode = "text" ->
            IF c = Quote THEN [r EXCEPT !.mode = "end"]
            ELSE IF c = Backslash THEN [r EXCEPT !.mode = "escape"]
            ELSE IF c < 32 THEN [r EXCEPT !.mode = "bad"] ELSE WithText(r, c)
      [] r.mode = "escape" ->
            IF c = 117 THEN [r EXCEPT !.mode = "hex"]
            ELSE WithText(r, CASE c = 110 -> 10 [] c = 114 -> 13 [] c = 116 -> 9 [] OTHER -> c)
      [] r.mode = "hex" ->
            LET val == 16 * r.val + Unhex(c)
            IN  IF r.n = 3 THEN WithText(r, val)
                ELSE [mode |-> "hex", s |-> r.s, n |-> r.n + 1, val |-> val, rest |-> r.rest]
      [] r.mode = "end" -> [r EXCEPT !.rest = Append(@, c)]
      [] OTHER -> r

Unquoted(s) == Fold([p \in Readings \X Nat |-> Read(p[1], p[2])], Unread("text", << >>, << >>), s)

(* A string comes back, whatever it is followed by. *)
StringSurvives(s, after) ==
    /\ Head(JsonString(s)) = Quote
    /\ Unquoted(Tail(JsonString(s) \o after)) = Unread("end", s, after)

(* A color is six digits, with full alpha, or eight. *)
ReadColor(digits) ==
    [i \in 1 .. 4 |-> IF 2 * i > Len(digits) THEN 255 ELSE 16 * digits[2 * i - 1] + digits[2 * i]]

(* What a block asks for, by the comments of its fields. *)
DefaultBorder == 1
DefaultWidth == 9

Meant(v) == IF v = 0 THEN DefaultBorder ELSE IF v = -1 THEN 0 ELSE v

BlockSurvives(b) ==
    LET p == Encode(b)
        color(k) == IF Has(p, k) THEN ReadColor(At(p, k, << >>)) ELSE NoColor
    IN  /\ color("color") = b.color /\ color("background") = b.background /\ color("border") = b.border
        /\ <<At(p, "border_top", DefaultBorder), At(p, "border_right", DefaultBorder),
             At(p, "border_bottom", DefaultBorder), At(p, "border_left", DefaultBorder)>>
           = <<Meant(b.top), Meant(b.right), Meant(b.bottom), Meant(b.left)>>
        /\ At(p, "separator", TRUE) = b.separator
        /\ At(p, "separator_block_width", DefaultWidth)
           = IF b.sepWidth = (IF b.separator THEN 0 ELSE -1) \/ b.sepWidth < 0 THEN DefaultWidth ELSE b.sepWidth

(* The click i3bar reports on a block: the name and the instance that it has
   read, and keys the program does not know. *)
Clicked(b, button, mods) ==
    LET p == Encode(b)
    IN  Key("unknown", 0) \o KeyIf(Has(p, "name"), "name", At(p, "name", ""))
        \o KeyIf(Has(p, "instance"), "instance", At(p, "instance", ""))
        \o Key("button", button) \o Key("modifiers", mods) \o Key("x", 5)

ClickFindsBlock(b, button, mods) ==
    LET e == FromJSON(Clicked(b, button, mods))
    IN  /\ e.name = b.name /\ e.instance = b.instance /\ e.button = button /\ e.x = 5 /\ e.y = 0
        /\ e.modifiers = {Modifiers[m] : m \in {n \in DOMAIN Modifiers : \E i \in DOMAIN mods : mods[i] = n}}
=============================================================================
