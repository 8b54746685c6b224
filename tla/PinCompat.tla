------------------------------ MODULE PinCompat ------------------------------
(***************************************************************************)
(* wirestudio/csp/compatibility.py: check_pin_compatibility reports what   *)
(* is wrong with the pins of a design.  It is pure and runs on the result  *)
(* of every solve_pins call, so here it is a function of the state of      *)
(* PinSolver; the two modules keep their own idea of what an output is.    *)
(***************************************************************************)
EXTENDS PinSolver

CONSTANT
    BusPins  \* bus -> (role -> board pin), the pins that the design gives it

OutputKinds == {"digital_out", "i2s_dout", "uart_tx", "spi_cs", "spi_clk",
                "spi_mosi", "i2s_lrclk", "i2s_bclk"}

CapsOf(p) == IF p \in BoardPins THEN Caps[p] ELSE {}

\* What each code of the checker means for a pin of this kind on these tags.
Complaints(kind, tags) ==
    {code \in {"input_only_as_output", "boot_strap_output", "serial_console",
               "voltage_limit", "adc2_wifi_conflict", "function_unsupported"} :
        CASE code = "input_only_as_output" -> kind \in OutputKinds /\ "input_only" \in tags
          [] code = "boot_strap_output"    ->
                kind \in OutputKinds /\ tags \cap {"boot_high", "boot_low"} # {}
          [] code = "serial_console"       -> tags \cap {"serial_tx", "serial_rx"} # {}
          [] code = "voltage_limit"        -> kind = "analog_in" /\ "adc_max_1v" \in tags
          [] code = "adc2_wifi_conflict"   ->
                kind = "analog_in" /\ "adc2" \in tags /\ ClassicEsp32
          [] code = "function_unsupported" -> kind = "i2s_dout" /\ "no_pwm" \in tags}

\* A pin the board does not have and a role the library does not have are
\* left to others.
ConnectionWarnings(i) ==
    IF target[i].kind = "gpio" /\ target[i].at # None /\ Lookup(slot[i]) = "ok"
    THEN Complaints(KindOf(i), CapsOf(target[i].at))
    ELSE {}

\* Mutant: the mirror of the solver's table lost its analog row.
MutLockRequires(kind) ==
    IF kind \in {"digital_in", "digital_out", "spi_cs", "i2s_dout", "analog_in"}
    THEN {"gpio"} ELSE {}

LockRequires(kind) ==
    CASE kind = "analog_in" -> {"adc"}
      [] kind \in {"digital_in", "digital_out", "spi_cs", "i2s_dout"} -> {"gpio"}
      [] OTHER -> {}

LockedPinInvalid ==
    {s \in DOMAIN lock :
        /\ Lookup(s) = "ok"
        /\ CapsOf(lock[s]) # {}
        /\ ~(LockRequires(PinKind[LibraryOf[s.comp]][s.role]) \subseteq CapsOf(lock[s]))}

-----------------------------------------------------------------------------
(* The pins of the buses.  Which way a line goes is written down again, by *)
(* bus type and role; "io" lines are judged like inputs.                   *)

\* Mutant: the transmit line of a uart is an input.
MutDirection(type) ==
    CASE type = "i2c"   -> [sda |-> "io", scl |-> "out"]
      [] type = "spi"   -> [clk |-> "out", mosi |-> "out", miso |-> "in", cs |-> "out"]
      [] type = "uart"  -> [tx |-> "in", rx |-> "in"]
      [] type = "i2s"   -> [lrclk |-> "out", bclk |-> "out"]
      [] type = "1wire" -> [pin |-> "io"]

Direction(type) ==
    CASE type = "i2c"   -> [sda |-> "io", scl |-> "out"]
      [] type = "spi"   -> [clk |-> "out", mosi |-> "out", miso |-> "in", cs |-> "out"]
      [] type = "uart"  -> [tx |-> "out", rx |-> "in"]
      [] type = "i2s"   -> [lrclk |-> "out", bclk |-> "out"]
      [] type = "1wire" -> [pin |-> "io"]

\* A pin without I2C makes the other complaints about an i2c line moot.
LineComplaints(type, role, tags) ==
    LET out == Direction(type)[role] = "out" IN
    IF type = "i2c" /\ "no_i2c" \in tags THEN {"function_unsupported"}
    ELSE {code \in {"input_only_as_output", "boot_strap_output", "serial_console"} :
            CASE code = "input_only_as_output" -> out /\ "input_only" \in tags
              [] code = "boot_strap_output"    -> out /\ tags \cap {"boot_high", "boot_low"} # {}
              [] code = "serial_console"       -> tags \cap {"serial_tx", "serial_rx"} # {}}

\* A role of a bus with no pin, or one that the board does not have, is passed.
BusPinWarnings(b) ==
    UNION {{role} \X LineComplaints(BusType[b], role, CapsOf(BusPins[b][role])) :
              role \in {r \in DOMAIN BusPins[b] \cap DOMAIN Direction(BusType[b]) :
                           CapsOf(BusPins[b][r]) # {}}}

-----------------------------------------------------------------------------
Solved == phase = "done" /\ board = "known"

GpioChosen(i) == SolverChose(i) /\ target[i].kind = "gpio"

\* Candidates without a boot-strap, serial or LED tag.
PlainCandidates(i) == {p \in Candidates(KindOf(i)) : SpecialRank(p) = 0}

\* The solver makes a choice the checker warns about only when it has to: a
\* boot-strap or serial pin when every plain candidate is held in the
\* finished design, an ADC2 pin when every plain ADC1 candidate is.
RiskOnlyWhenForced ==
    Solved => \A i \in {j \in Conns : GpioChosen(j)} :
        /\ ConnectionWarnings(i) \cap {"boot_strap_output", "serial_console"} # {}
            => PlainCandidates(i) \subseteq Held
        /\ "adc2_wifi_conflict" \in ConnectionWarnings(i)
            => {p \in PlainCandidates(i) : "adc2" \notin Caps[p]} \subseteq Held

\* A gpio connection that the solve put on a pin of the board, by choice or as its
\* lock says.  A pin that has no tags is left to others by the checker.
BoundHere(i) ==
    /\ orig[i] = Unbound("gpio") /\ Lookup(slot[i]) = "ok"
    /\ CapsOf(target[i].at) # {}

\* The checker has an error for the pin: the lock cannot play the role, or the pin
\* cannot be an output.
CalledAnError(i) ==
    slot[i] \in LockedPinInvalid \/ "input_only_as_output" \in ConnectionWarnings(i)

\* "assign legal pins" (README.md:25), "A user-locked pin should actually be able
\* to play the role's library kind" (compatibility.py:237): the checker has an
\* error for a pin just where the solver would not have picked it.
SameVerdict ==
    Solved => \A i \in {j \in Conns : BoundHere(j)} :
        CalledAnError(i) <=> target[i].at \notin Candidates(KindOf(i))

\* The solver has its own idea of an output (pin_solver.py:84).
OutputForCheckerAlone(kind) == kind \in OutputKinds \ {"digital_out", "i2s_dout"}

\* What is true of it.  The solver picks candidates only; two gaps between its
\* tables and those of the checker are all there is.  A candidate is called an
\* error only if it is input-only and the checker alone takes the kind for an
\* output.  A lock on no candidate goes unreported only if the checker asks nothing
\* of the kind and the pin is no gpio (compatibility.py:282, pin_solver.py:83).
SameVerdictButForTwoGaps ==
    Solved => \A i \in {j \in Conns : BoundHere(j)} :
        LET kind == KindOf(i)
            tags == CapsOf(target[i].at)
            legal == target[i].at \in Candidates(kind)
        IN  /\ SolverChose(i) => legal
            /\ legal /\ CalledAnError(i) =>
                   OutputForCheckerAlone(kind) /\ "input_only" \in tags
            /\ ~legal /\ ~CalledAnError(i) =>
                   LockRequires(kind) = {} /\ "gpio" \notin tags

\* "the same boot-strap and input-only treatment as direct gpio outputs"
\* (compatibility.py:232): a pin that a bus names for a line and the same pin
\* wired to the line of a component are judged alike, by two tables of what an
\* output is.  The I2C clock, an output for the bus alone, is left out, and so
\* is a pin without I2C, which only the bus layer knows (compatibility.py:215).
KindOfLine ==
    [spi  |-> [clk |-> "spi_clk", mosi |-> "spi_mosi", miso |-> "spi_miso", cs |-> "spi_cs"],
     uart |-> [tx |-> "uart_tx", rx |-> "uart_rx"],
     i2s  |-> [lrclk |-> "i2s_lrclk", bclk |-> "i2s_bclk"],
     i2c  |-> [sda |-> "i2c_sda"]]

LinesJudgedAlike ==
    \A i \in Conns, b \in {x \in Buses : BusType[x] \in DOMAIN KindOfLine} :
        LET kinds == KindOfLine[BusType[b]] IN
        \A role \in DOMAIN BusPins[b] \cap DOMAIN kinds :
            /\ target[i] = [kind |-> "gpio", at |-> BusPins[b][role]]
            /\ Lookup(slot[i]) = "ok" /\ KindOf(i) = kinds[role]
            /\ BusType[b] = "i2c" => "no_i2c" \notin CapsOf(BusPins[b][role])
            => {x[2] : x \in {y \in BusPinWarnings(b) : y[1] = role}}
               = ConnectionWarnings(i)
=============================================================================
