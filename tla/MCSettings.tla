----------------------------- MODULE MCSettings -----------------------------
(* Commands for the run of Settings: each set is one line of questions.    *)
EXTENDS Settings

Cmd(name, values) == {[name |-> name, argc |-> 1, a |-> v, b |-> 0] : v \in values}
Cmd2(name, pairs) == {[name |-> name, argc |-> 2, a |-> p[1], b |-> p[2]] : p \in pairs}
Dev(device, type, npar, size, trigger) ==
  [device |-> device, type |-> type, npar |-> npar, size |-> size, trigger |-> trigger]
ClearIt == [name |-> "daq_clear_readlist", argc |-> 0, a |-> 0, b |-> 0]

AllUsages == {"ring", "format", "sum", "size", "types", "values", "triggers",
              "files", "numbers"}

(* ring, format, sum, size: the ring is built anew and has to keep what was
   set before; types, values: settings that are stored as they come; triggers:
   handlers made by four kinds of devices, the first one counts; files and
   numbers: files of all sizes, next to devices that deliver more than they
   declare. *)
MCCommands == [
  ring |-> Cmd("daq_set_compression", {-1, 0, 2, 5}) \cup Cmd("daq_set_nr_threads", {-1, 1, 3})
           \cup Cmd("daq_define_buffersize", {1, 513, 8192, 16385}),
  format |-> Cmd("daq_set_eventformat", {0, 1}) \cup Cmd("daq_set_nr_threads", {3}) \cup {ClearIt},
  sum |-> Cmd("daq_set_md5enable", {0, 1}) \cup Cmd("daq_allow_md5turnoff", {0, 1})
          \cup Cmd("daq_set_nr_threads", {3}) \cup Cmd("daq_set_compression", {0, 1, 4}),
  size |-> Cmd("daq_set_maxbuffersize", {-1, 0, 9, 2048, 2097145, 4194305})
          \cup Cmd("daq_define_buffersize", {0, 2}),
  types |-> Cmd("daq_setfilerule", {1, 2}) \cup Cmd("daq_set_runtype", {1, 2})
            \cup Cmd2("daq_define_runtype", {<<1, 3>>, <<1, 2>>, <<2, 4>>})
            \cup Cmd("daq_get_runtype", {0}),
  values |-> Cmd("daq_set_runcontrolmode", {0, 7}) \cup Cmd("daq_set_uservalue", {1})
             \cup Cmd2("daq_set_uservalue", {<<0, 5>>, <<7, 5>>, <<8, 5>>})
             \cup Cmd("daq_get_uservalue", {7, 8}) \cup Cmd("daq_get_mqtt_host", {0})
             \cup Cmd("daq_set_mqtt_host", {0, 1}) \cup Cmd("daq_get_lastfilename", {0})
             \cup Cmd("daq_set_rolloverlimit", {1}) \cup Cmd("daq_set_maxevents", {10}),
  triggers |-> {ClearIt},
  files |-> Cmd("daq_set_eventformat", {1}),
  numbers |-> Cmd("daq_set_eventformat", {1})]

MCRequests == [
  ring |-> {}, sum |-> {}, types |-> {}, values |-> {},
  format |-> {Dev("device_rtclock", 1, 3, 0, FALSE)},
  size |-> {Dev("device_file", 1, 4, 0, FALSE), Dev("device_file", 9, 5, 1100, FALSE)},
  triggers |-> {Dev("device_random", 1, 7, 3, TRUE), Dev("device_deadtime", 14, 6, 0, TRUE),
                Dev("device_gauss", 1, 3, 0, FALSE), Dev("device_gauss", 9, 4, 0, TRUE),
                Dev("device_pluginexample", 14, 5, 3, TRUE),
                Dev("device_random", 1, 8, 0, FALSE), Dev("device_unknown", 1, 3, 0, FALSE)},
  files |-> {Dev("device_file", 9, 4, 0, FALSE), Dev("device_file_delete", 9, 5, 20, FALSE),
             Dev("device_filenumbers", 9, 4, 0, FALSE), Dev("device_command", 9, 4, 0, FALSE),
             Dev("device_command", 9, 5, 100, FALSE), Dev("device_random", 9, 4, 7, FALSE)},
  numbers |-> {Dev("device_filenumbers_delete", 9, 5, 2, FALSE),
               Dev("device_deadtime", 9, 5, 5, FALSE), Dev("device_gauss", 9, 3, 0, FALSE),
               Dev("device_pluginexample", 9, 4, 5, FALSE), Dev("device_rtclock", 9, 3, 0, FALSE),
               Dev("device_filenumbers", 12, 3, 0, FALSE)}]

SomeWords == {5, 256, 4096, 4097}
===========================================================================
