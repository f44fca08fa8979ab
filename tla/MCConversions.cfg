SPECIFICATION ConversionSpec
CONSTANTS
    Quotes <- SomeQuotes
    Amounts <- SomeAmounts
INVARIANTS KeysAgree RightOrOneHigh PrintsPrice AtMostOneLotLow NeverErases
