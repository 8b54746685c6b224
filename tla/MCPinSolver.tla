----------------------------- MODULE MCPinSolver -----------------------------
(***************************************************************************)
(* A small library and the designs TLC enumerates for PinSolver: three     *)
(* components on a header of five board pins that meet every preference of *)
(* the solver, and eight components with expanders, buses and a hub.       *)
(***************************************************************************)
EXTENDS PinCompat, TLC

Slot(c, r)   == [comp |-> c, role |-> r]
To(kind, at) == [kind |-> kind, at |-> at]
Wire(S, T)   == [slot : S, target : T]

\* Pin 5 is tagged like GPIO0 of esp32-devkitc-v4.yaml, which is no gpio; pin 9
\* is a name this board does not have.
MCCaps ==
    1 :> {"gpio", "adc", "adc1", "input_only"} @@ 2 :> {"gpio", "adc", "adc2"}
    @@ 3 :> {"gpio", "boot_high", "no_pwm", "no_i2c"} @@ 4 :> {"gpio"}
    @@ 5 :> {"boot", "strap", "boot_high", "adc", "adc2"}

\* 1 is a sensor, 2 a display, 3 has a library id that is not in the library;
\* 4 and 5 are expanders of one and two pins, 6 a channel of hub 7, 8 a bus
\* device.  Two i2c buses and one uart, no spi for the device.
MCLibraryOf == <<"sensor", "display", "gone", "exp1", "exp2", "channel", "hub", "device">>
MCPinKind ==
    "sensor" :> ("AO" :> "analog_in" @@ "DO" :> "digital_out")
    @@ "display" :> ("CS" :> "spi_cs" @@ "IN" :> "digital_in")
    @@ "exp1" :> <<>> @@ "exp2" :> <<>> @@ "hub" :> <<>>
    @@ "channel" :> ("HUB" :> "hub_ref" @@ "ODD" :> "hub_ref")
    @@ "device" :> ("SDA" :> "i2c_sda" @@ "CLK" :> "spi_clk" @@ "TX" :> "uart_tx"
                    @@ "RX" :> "uart_rx" @@ "IN" :> "digital_in")
MCExpanderSize == "exp1" :> 1 @@ "exp2" :> 2
MCHubOf   == <<"channel", "HUB">> :> "hub"
MCBusType == <<"i2c", "uart", "i2c">>
MCBusPins == <<"sda" :> 3 @@ "scl" :> 4, "tx" :> 3, "sda" :> 1 @@ "scl" :> 9>>

GpioWirings ==
    Wire({Slot(1, "AO"), Slot(1, "DO"), Slot(2, "CS")},
         {Unbound("gpio"), To("gpio", 1), To("gpio", 4)})
    \cup Wire({Slot(2, "IN"), Slot(1, "ZZ"), Slot(3, "AO"), Slot(7, "AO")}, {Unbound("gpio")})
    \cup Wire({Slot(1, "DO")}, {Unbound("expander_pin"), To("gpio", 9)})

MixWirings ==
    Wire({Slot(8, "IN")},
         {Unbound("expander_pin"), To("expander_pin", <<5, 0>>), To("expander_pin", <<5, 7>>)})
    \cup Wire({Slot(8, "SDA"), Slot(8, "CLK"), Slot(8, "TX"), Slot(8, "IN")}, {Unbound("bus")})
    \cup Wire({Slot(6, "HUB"), Slot(6, "ODD")}, {Unbound("component")})
    \cup Wire({Slot(8, "SDA")}, {To("bus", 3), To("gpio", 1), To("gpio", 3), [kind |-> "rail", at |-> None]})
    \cup Wire({Slot(8, "TX")}, {To("gpio", 3), Unbound("gpio")})
    \cup Wire({Slot(8, "RX")}, {Unbound("gpio")})

MCDesigns ==
    [components : {1 .. 3}, wires : [Conns -> GpioWirings]]
    \cup [components : {4 .. 8}, wires : [Conns -> MixWirings]]

MCLockMaps ==
    {<<>>, Slot(1, "AO") :> 4, Slot(1, "DO") :> 1, Slot(2, "CS") :> 9,
     Slot(1, "ZZ") :> 1, Slot(1, "DO") :> 2 @@ Slot(1, "AO") :> 2,
     Slot(1, "DO") :> 2 @@ Slot(2, "CS") :> 5 @@ Slot(8, "SDA") :> 1 @@ Slot(8, "RX") :> 5}

AllBoards == {"known", "missing", "unknown"}
=============================================================================
