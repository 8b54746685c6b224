----------------------------- MODULE MCDesignEdit -----------------------------
(***************************************************************************)
(* A small instance of DesignEdit and DesignExport.  A hub with its channel *)
(* and an io expander, on buses of two types, a motion sensor on rails and *)
(* a board pin, a board and one that the library does not have.            *)
(***************************************************************************)
EXTENDS DesignExport

CONSTANTS Esp32, Foreign, Rail5V

P(role, kind) == [role |-> role, kind |-> kind]

MCLibPins ==
    [sensor   |-> <<P("SDA", "i2c_sda"), P("HUB", "hub_ref")>>,
     expander |-> <<P("CLK", "spi_clk")>>,
     pir      |-> <<P("VCC", "power"), P("GND", "ground"), P("OUT", "digital_in")>>]

MCTemplateUses == [sensor |-> {"bus", "parent"}, pir |-> {"OUT"}]

\* The motion sensor is not mapped to a symbol, or all three are.
MCPinMap     == [sensor |-> [HUB |-> "AIN"], expander |-> <<>>]
MCSymbolPins == [sensor |-> {"SDA", "AIN"}, expander |-> {"CLK"}]
AllPinMap     == MCPinMap @@ "pir" :> [VCC |-> "VDD"]
AllSymbolPins == MCSymbolPins @@ "pir" :> {"VDD", "GND", "OUT"}

MCBand == [sensor |-> [min |-> 30, max |-> 55], expander |-> [min |-> 18, max |-> 55],
           pir |-> [min |-> 45, max |-> 200]]

MCParent == [sensor |-> "expander"]

R(name, volts) == [name |-> name, volts |-> volts]

MCRails        == Esp32 :> <<R(Rail5V, 50), R(Rail3V3, 33), R(RailGND, 0)>>
MCDefaultBuses == Esp32 :> {"i2c"}

\* Foreign is a board the library does not have.
MCBoards == {Foreign, Esp32}

\* The id that a counter would give the expander may be asked for by others.
ExpanderId == <<"expander", 1, "_">>
MCHints  == {ExpanderId}
MCBusIds == {<<"i2c", 0, "">>}
MCPicks  == {<<"SDA", "bus">>, <<"HUB", "component">>, <<"OUT", "expander_pin">>}
===============================================================================
