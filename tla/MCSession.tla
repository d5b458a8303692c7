------------------------------ MODULE MCSession ------------------------------
(* Session with configuration files: one like .config/server.cfg (comments,  *)
(* empty lines, fewer voltages than channels), one with "=" in a value, and  *)
(* files with a key that is missing, repeated, without a value, followed by  *)
(* a blank, or with a value that is not a number.                            *)
EXTENDS Session

Port == <<"port", "=", "8080">>
Channels == <<"NIDAQmxNumChannels", "=", "2">>
Rate == <<"NIDAQmxSampleRate", "=", "2">>
Description == <<"NIDAQmxChannelDescription", "=", "ai0:1">>
Voltages == <<"NIDAQmxChannelVoltages", "=", "1", " ", "2">>
OneVoltage == <<"NIDAQmxChannelVoltages", "=", "1">>

CheckedFiles ==
    {<<<<"#", "port", "=", "1">>, Port, <<>>, Channels, Rate, Description, OneVoltage, <<>>>>,
     <<Port, Channels, Rate, <<"NIDAQmxChannelDescription", "=", "ai0", "=", "1">>, Voltages>>,
     <<Port, Channels, Description, Voltages>>,
     <<Port, Channels, Rate, Description, Voltages, <<"port", "=", "1">>>>,
     <<Port, <<"NIDAQmxNumChannels", "=">>, Rate, Description, Voltages>>,
     <<Port, Channels, <<"NIDAQmxSampleRate", " ", "=", "2">>, Description, Voltages>>,
     <<Port, Channels, Rate, Description, Append(Voltages, " ")>>,
     <<<<"port", "=", "ai0:1">>, Channels, Rate, Description, Voltages>>,
     <<Port, Channels, Rate, Description, Voltages, <<"!", "comment">>>>}

OneFile == {<<Port, Channels, Rate, Description, Voltages>>}
=============================================================================
