------------------------------ MODULE Commands ------------------------------
(***************************************************************************)
(* The commands of the command line that use devices (src/app/cli_cmd.cpp) *)
(* and the registration of commands for the devices that there are.  The   *)
(* arguments of a command are a sequence of words, some of them numbers;   *)
(* devices are what they were set to.  A command runs in the thread of the *)
(* command line; "gpio flash" and "gpio show" go on until another thread   *)
(* calls gpio_terminate_loop().                                            *)
(***************************************************************************)
EXTENDS Integers, Sequences, FiniteSets, SequencesExt

CONSTANTS
  Number,      \* the words that are numbers, with their values: a function
  Gpios,       \* the names of the pins that there are
  Channels,    \* of the PWM
  Verboses,    \* the names of the flags
  MaxArgs      \* bound: arguments of a command

CommandsAssumption == MaxArgs \in Nat /\ Channels \subseteq Nat

Severities == {"ERROR", "DEBUG"}
Words == (DOMAIN Number) \cup {"led", "toggle", "show", "flash", "?", "other", "ERROR", "list"}

VARIABLES
  devices,     \* frozen: the devices that are registered
  gpio, pwm, verbose, log_level, rtc,
  spi,         \* the words written to the SPI device
  gpio_end,
  loop,        \* the loop of a gpio command: which, and the pins
  reply        \* what the command says: "ok", "error" or "value"

cmdVars == <<devices, gpio, pwm, verbose, log_level, rtc, spi, gpio_end, loop, reply>>
state == <<gpio, pwm, verbose, log_level, rtc, spi>>

Optional == {"pwm", "uart", "rtc", "i2c", "spi_dev"}

CmdInit ==
  /\ devices \in {{}, Optional}
  /\ gpio = [g \in Gpios |-> 0]
  /\ pwm = [c \in Channels |-> 0]
  /\ verbose = [v \in Verboses |-> FALSE]
  /\ log_level = "DEBUG"
  /\ rtc = 0
  /\ spi = <<>>
  /\ gpio_end = FALSE
  /\ loop = [is |-> "none", pins |-> <<>>]
  /\ reply = "ok"

\* cli_parse_int() of an argument, which may be missing
Parses(args, i) == i \in DOMAIN args /\ args[i] \in DOMAIN Number
Value(args, i) == Number[args[i]]

\* get_args()
get_args(args, n) == \A i \in 1 .. n : Parses(args, i)

cli_error == reply' = "error" /\ UNCHANGED <<state, gpio_end, loop>>
Say(text) == reply' = text /\ UNCHANGED <<gpio_end, loop>>

-----------------------------------------------------------------------------
cmd_pwm(args) ==
  /\ "pwm" \in devices
  /\ \/ ~get_args(args, 2) /\ cli_error
     \/ get_args(args, 2) /\ Value(args, 1) \notin Channels /\ cli_error
     \/ /\ get_args(args, 2) /\ Value(args, 1) \in Channels
        /\ pwm' = [pwm EXCEPT ![Value(args, 1)] = Value(args, 2)]
        /\ UNCHANGED <<gpio, verbose, log_level, rtc, spi>> /\ Say("ok")

\* cmd_uart() sends its arguments.
cmd_uart(args) == "uart" \in devices /\ UNCHANGED state /\ Say("ok")

\* The reading of the arguments of "gpio": whether they begin with a word
Begins(args, word) == args # <<>> /\ args[1] = word
Past(args, word) == IF Begins(args, word) THEN Tail(args) ELSE args
AfterDelay(args) == IF Parses(args, 1) THEN Tail(args) ELSE args

Toggled(g) == [gpio EXCEPT ![g] = 1 - @]

StartLoop(kind, pins) ==
  /\ gpio_end' = FALSE
  /\ loop' = [is |-> kind, pins |-> pins]
  /\ reply' = "ok"
  /\ UNCHANGED state

\* gpio_flash() toggles each pin named, up to the first that there is not.
PinsOf(args) ==
  LET n == CHOOSE m \in 0 .. Len(args) :
             /\ \A i \in 1 .. m : args[i] \in Gpios
             /\ m = Len(args) \/ args[m + 1] \notin Gpios
  IN SubSeq(args, 1, n)

\* Faulty: sets the pin to what it makes of the value before it has parsed it.
GpioSet_Unparsed(g, args) ==
  /\ gpio' = [gpio EXCEPT ![g] = IF Parses(args, 1) /\ Value(args, 1) # 0 THEN 1 ELSE 0]
  /\ gpio_end' = FALSE
  /\ reply' = IF Parses(args, 1) THEN "ok" ELSE "error"
  /\ UNCHANGED <<pwm, verbose, log_level, rtc, spi, loop>>

\* "gpio <name> 0|1|?"
GpioSet(g, args) ==
  /\ gpio_end' = FALSE
  /\ gpio' = IF Parses(args, 1)
               THEN [gpio EXCEPT ![g] = IF Value(args, 1) = 0 THEN 0 ELSE 1] ELSE gpio
  /\ reply' = IF Parses(args, 1) THEN "ok" ELSE IF Begins(args, "?") THEN "value" ELSE "error"
  /\ UNCHANGED <<pwm, verbose, log_level, rtc, spi, loop>>

cmd_gpio(args) ==
  LET toggle == Begins(args, "toggle")
      a == Past(args, "toggle")
      show == Begins(a, "show")
      b == IF show THEN AfterDelay(Tail(a)) ELSE a
      name == IF b = <<>> THEN "none" ELSE b[1]
  IN IF name = "flash" THEN StartLoop("flash", PinsOf(AfterDelay(Tail(b))))
     ELSE IF name \notin Gpios
       THEN /\ gpio_end' = FALSE /\ reply' = "error" /\ UNCHANGED <<state, loop>>
     ELSE IF toggle
       THEN /\ gpio' = Toggled(name) /\ gpio_end' = FALSE /\ reply' = "ok"
            /\ UNCHANGED <<pwm, verbose, log_level, rtc, spi, loop>>
     ELSE IF show THEN StartLoop("show", <<name>>)
     ELSE GpioSet(name, Tail(b))

\* cmd_rtc_set() writes a date when it is valid; the device may fail.
cmd_rtc_set(args) ==
  /\ "rtc" \in devices
  /\ \/ cli_error
     \/ /\ get_args(args, 1) /\ Value(args, 1) # 0
        /\ rtc' = Value(args, 1)
        /\ UNCHANGED <<gpio, pwm, verbose, log_level, spi>> /\ Say("ok")

cmd_rtc_get(args) ==
  "rtc" \in devices /\ (cli_error \/ (UNCHANGED state /\ Say("value")))

cmd_verbose(args) ==
  IF Begins(args, "list") THEN UNCHANGED state /\ Say("value")
  ELSE IF ~Parses(args, 2) \/ args[1] \notin Verboses THEN cli_error
  ELSE /\ verbose' = [verbose EXCEPT ![args[1]] = Value(args, 2) # 0]
       /\ UNCHANGED <<gpio, pwm, log_level, rtc, spi>> /\ Say("value")

\* cmd_i2c() probes one address or all.
cmd_i2c(args) ==
  IF "i2c" \notin devices THEN cli_error ELSE UNCHANGED state /\ Say("value")

\* cmd_spi() parses all words before it writes them.
cmd_spi(args) ==
  IF "spi_dev" \notin devices \/ ~get_args(args, Len(args)) THEN cli_error
  ELSE \/ cli_error
       \/ /\ spi' = [i \in DOMAIN args |-> Value(args, i)]
          /\ UNCHANGED <<gpio, pwm, verbose, log_level, rtc>> /\ Say("ok")

cmd_logging(args) ==
  IF Begins(args, "?") THEN UNCHANGED state /\ Say("value")
  ELSE IF args = <<>> \/ args[1] \notin Severities THEN cli_error
  ELSE /\ log_level' = args[1]
       /\ UNCHANGED <<gpio, pwm, verbose, rtc, spi>> /\ Say("ok")

\* cmd_help(), cmd_banner() and cmd_devices() print.
cmd_help(args) == UNCHANGED state /\ Say("value")
cmd_banner(args) == UNCHANGED state /\ Say("value")
cmd_devices(args) == UNCHANGED state /\ Say("value")

\* add_cli_commands(): those of the devices that are registered
Command(args) ==
  \/ cmd_gpio(args) \/ cmd_verbose(args) \/ cmd_logging(args)
  \/ cmd_help(args) \/ cmd_banner(args) \/ cmd_devices(args)
  \/ cmd_pwm(args) \/ cmd_uart(args) \/ cmd_rtc_set(args) \/ cmd_rtc_get(args)
  \/ "i2c" \in devices /\ cmd_i2c(args)
  \/ "spi_dev" \in devices /\ cmd_spi(args)

Run ==
  /\ loop.is = "none"
  /\ \E args \in BoundedSeq(Words, MaxArgs) : Command(args)
  /\ UNCHANGED devices

\* A round of the loop of "flash" or "show"
Round ==
  /\ loop.is # "none"
  /\ IF gpio_end
       THEN loop' = [is |-> "none", pins |-> <<>>] /\ UNCHANGED gpio
       ELSE /\ gpio' = [g \in Gpios |->
                          (gpio[g] + Cardinality({i \in DOMAIN loop.pins :
                             loop.is = "flash" /\ loop.pins[i] = g})) % 2]
            /\ UNCHANGED loop
  /\ UNCHANGED <<devices, pwm, verbose, log_level, rtc, spi, gpio_end, reply>>

\* Another thread; before the command has begun this is lost.
gpio_terminate_loop ==
  /\ gpio_end' = TRUE
  /\ UNCHANGED <<devices, state, loop, reply>>

CmdNext == Run \/ Round \/ gpio_terminate_loop

CmdSpec == CmdInit /\ [][CmdNext]_cmdVars

\* A step of a command that reports an error changes no device ...
ErrorKeepsState == reply' = "error" /\ loop.is = "none" => UNCHANGED state

\* ... whatever its arguments and the devices there are (the "no such device" and
\* "error in" replies of cli_cmd.cpp).
ErrorsChangeNothing == [][ErrorKeepsState]_cmdVars
=============================================================================
