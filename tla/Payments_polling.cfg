SPECIFICATION PollingSpec
CONSTANTS
    card = card
    cash = cash
    booking = booking
    permit = permit
    Payments = {card, cash}
    Counter = {cash}
    Handlers = {h1, h2}
    Fees = {booking, permit}
    FeeOf <- MCFeeOf
    MaxDeaths = 1
    NoPayment = NoPayment
PROPERTIES
    TakenIsReceipted
CHECK_DEADLOCK FALSE
