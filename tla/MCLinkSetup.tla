---------------------------- MODULE MCLinkSetup ----------------------------
(* Instances of LinkSetup that TLC checks. *)
EXTENDS LinkSetup

Default == [primary |-> TRUE,
            primary_addr |-> <<1, 144, 1, 144>>, secondary_addr |-> <<0, 144, 0, 144>>,
            channel |-> NotGiven, rf_data_rate |-> "2mbps", rf_crc |-> "8",
            rf_retry_delay |-> 0, rf_retry_count |-> 15]
AsPeer(line) == [line EXCEPT !.primary = FALSE]

(* A second link on the same channel, whose addresses differ in one byte   *)
(* each; and links on other channels, or in other modes, with the          *)
(* addresses of the first. Two of the channels are beyond the chip's last. *)
Second == [Default EXCEPT !.primary_addr = <<1, 144, 2, 144>>,
                          !.secondary_addr = <<0, 144, 2, 144>>]
ChannelOne == [Default EXCEPT !.channel = <<49>>]
Slow == [Default EXCEPT !.rf_data_rate = "250kbps", !.rf_crc = "16"]

Refused == {[Default EXCEPT !.channel = <<55, 54>>], [Default EXCEPT !.channel = <<>>],
            [Default EXCEPT !.rf_crc = "12"], [Default EXCEPT !.rf_retry_count = 16]}

MCCommandLines ==
  {Default, Second, ChannelOne, Slow} \cup {AsPeer(line) : line \in {Default, Second, Slow}}
    \cup {[Default EXCEPT !.channel = <<126>>], AsPeer([Default EXCEPT !.channel = <<127>>])}
    \cup {[Default EXCEPT !.channel = <<200>>]} \cup Refused
=============================================================================
